---- MODULE Spec2Model ----
(***************************************************************************)
(* Model of the datalake_aws reconciliation engine (deployer.py) and of    *)
(* its state store and drift detector (state.py).                          *)
(*                                                                         *)
(* Python values are modelled as follows: None is the string "None", a     *)
(* dict is a function whose domain is its key set, a list is a sequence.   *)
(***************************************************************************)
EXTENDS Integers, Sequences, FiniteSets, TLC

VARIABLES
    state,      \* StateManager.state: the in-memory state document
    clock,      \* number of save_deployment calls made (stands for utcnow())
    recorded,   \* the Deployment Records built since the state was last
                \* empty, in arrival order
    lastOp,     \* the store operation executed last, with its arguments
    file        \* the content of the state file when the store was constructed

storeVars == <<state, clock, recorded, lastOp, file>>

VARIABLES
    config,     \* the DataLakeConfig handed to deploy
    remote,     \* the remote environment: what the service clients act on
    pc,         \* where deploy stands: "idle", a stage, "returned", "raised"
    summary,    \* deploy's local outcome map, as <<key, label>> in insertion order
    returned,   \* what the caller of deploy obtained: a map, or nothing
    calls,      \* the remote calls issued by the current run, in order
    run,        \* number of deploy invocations started
    before,     \* the remote environment when the current run started
    prev,       \* how the previous run ended: "none", "returned", "raised"
    faults      \* number of remote calls that failed for an outside reason

deployVars ==
    <<config, remote, pc, summary, returned, calls, run, before, prev, faults>>

VARIABLES
    retry       \* one call of a function wrapped by retry_on_throttle

retryVars == <<retry>>

VARIABLES
    disk,       \* the persisted state file, as the chunks of text it holds
    stores,     \* the store instances of the processes that share the file
    cli,        \* one run of the command line entry point
    made        \* one configuration object on its way to deploy

toolVars == <<disk, stores, cli, made>>

vars == <<storeVars, deployVars, retryVars, toolVars>>

None == "None"

(***************************************************************************)
(* Bounds                                                                  *)
(***************************************************************************)
MaxSaves == 2          \* save_deployment calls per behaviour of SpecStore
MaxHistSaves == 11     \* save_deployment calls per behaviour of SpecHistory
MaxRuns == 2           \* deploy invocations per behaviour of SpecDeploy
MaxFaults == 1         \* remote calls failing for an outside reason
MaxCallsPerStage == 30 \* positions at which a call of one stage can fail
MaxClearSaves == 3     \* recordings in a run that also clears the state
MaxFileSaves == 2      \* recordings made by a store built over a state file
MaxPersistSaves == 1   \* recordings made by each store that shares the file
WriteChunks == 2       \* write calls it takes to put a document's text on disk
MaxRetries == 3        \* largest max_retries handed to retry_on_throttle

(***************************************************************************)
(* Program constants                                                       *)
(***************************************************************************)
HistoryLimit == 10

\* the default limit of get_deployment_history
DefaultHistoryLimit == 10

(***************************************************************************)
(* Python helpers                                                          *)
(***************************************************************************)
EmptyDict == [k \in {} |-> None]

\* dict.get(key): the value, or None when the key is missing
Get(d, k) == IF k \in DOMAIN d THEN d[k] ELSE None

\* truthiness of a dict
Truthy(d) == DOMAIN d # {}

\* seq[-n:] for n >= 1
LastN(s, n) == IF Len(s) <= n THEN s ELSE SubSeq(s, Len(s) - n + 1, Len(s))

\* strings, character by character
LowerLetters ==
    {"a", "b", "c", "d", "e", "f", "g", "h", "i", "j", "k", "l", "m",
     "n", "o", "p", "q", "r", "s", "t", "u", "v", "w", "x", "y", "z"}

UpperLetters ==
    {"A", "B", "C", "D", "E", "F", "G", "H", "I", "J", "K", "L", "M",
     "N", "O", "P", "Q", "R", "S", "T", "U", "V", "W", "X", "Y", "Z"}

Digits == {"0", "1", "2", "3", "4", "5", "6", "7", "8", "9"}

CharAt(s, k) == SubSeq(s, k, k)

AllIn(s, chars) == \A k \in 1 .. Len(s) : CharAt(s, k) \in chars

Contains(s, part) ==
    \E k \in 1 .. (Len(s) - Len(part) + 1) :
        SubSeq(s, k, k + Len(part) - 1) = part

EndsWith(s, part) ==
    Len(s) >= Len(part) /\ SubSeq(s, Len(s) - Len(part) + 1, Len(s)) = part

PositionsOf(s, char) == {k \in 1 .. Len(s) : CharAt(s, k) = char}

\* the position of the n-th occurrence of char in s
NthPosition(s, char, n) ==
    CHOOSE k \in PositionsOf(s, char) :
        Cardinality({j \in PositionsOf(s, char) : j < k}) = n - 1

\* str.lower of one character
LowerChar(c) ==
    IF c \in UpperLetters
    THEN CHOOSE l \in LowerLetters :
            \E k \in 1 .. 26 :
                /\ CharAt("abcdefghijklmnopqrstuvwxyz", k) = l
                /\ CharAt("ABCDEFGHIJKLMNOPQRSTUVWXYZ", k) = c
    ELSE c

RECURSIVE Lower(_)
Lower(s) ==
    IF Len(s) = 0 THEN ""
    ELSE LowerChar(CharAt(s, 1)) \o Lower(SubSeq(s, 2, Len(s)))

StartsWith(s, p) == Len(s) >= Len(p) /\ SubSeq(s, 1, Len(p)) = p

(***************************************************************************)
(* Configuration (config.py).  An optional section is a record with a      *)
(* `present` flag: FALSE stands for None.                                  *)
(***************************************************************************)
NoFirehose ==
    [present |-> FALSE, stream_name |-> None, role_name |-> None,
     prefix |-> None]

NoRole ==
    [present |-> FALSE, name |-> None, assume_role_policy |-> None,
     managed_policy_arns |-> {}, inline_policies |-> [k \in {} |-> None]]

NoVpc ==
    [present |-> FALSE, vpc_id |-> None, subnet_ids |-> {},
     security_group_ids |-> {}, route_table_ids |-> {},
     enable_s3 |-> TRUE, enable_glue |-> TRUE, enable_athena |-> TRUE]

NoLakeFormation ==
    [present |-> FALSE, enable_lake_formation |-> FALSE,
     data_lake_admins |-> <<>>, register_s3_location |-> TRUE,
     use_lake_formation_credentials |-> TRUE, permissions |-> <<>>]

TagKeys == {"Env", "Owner"}
TagVals == {"dev", "prod"}
TagSets == UNION {[ks -> TagVals] : ks \in SUBSET TagKeys}

\* a variant with the workgroup name defaulting to None
BaseConfigNoWorkgroup ==
    [region |-> "us-east-1", bucket_name |-> "test-lake",
     glue_database |-> "test_db", raw_prefix |-> "raw/",
     processed_prefix |-> "processed/", analytics_prefix |-> "analytics/",
     kms_key_id |-> None, crawler_name |-> None,
     crawler_role_arn |-> None, crawler_schedule |-> None,
     crawler_s3_target_path |-> None,
     athena_workgroup |-> None, table_format |-> "iceberg",
     enable_transactional_tables |-> TRUE, transactional_table_name |-> None,
     tags |-> EmptyDict, firehose |-> NoFirehose, processing_role |-> NoRole,
     vpc_endpoints |-> NoVpc, lake_formation |-> NoLakeFormation,
     dry_run |-> FALSE]

BaseConfig ==
    [region |-> "us-east-1", bucket_name |-> "test-lake",
     glue_database |-> "test_db", raw_prefix |-> "raw/",
     processed_prefix |-> "processed/", analytics_prefix |-> "analytics/",
     kms_key_id |-> None, crawler_name |-> None,
     crawler_role_arn |-> None, crawler_schedule |-> None,
     crawler_s3_target_path |-> None,
     athena_workgroup |-> "datalake-workgroup", table_format |-> "iceberg",
     enable_transactional_tables |-> TRUE, transactional_table_name |-> None,
     tags |-> EmptyDict, firehose |-> NoFirehose, processing_role |-> NoRole,
     vpc_endpoints |-> NoVpc, lake_formation |-> NoLakeFormation,
     dry_run |-> FALSE]

\* configurations differing from the defaults in one scalar field
ScalarVariants ==
    { [BaseConfig EXCEPT !.region = "eu-west-1"],
      [BaseConfig EXCEPT !.bucket_name = "other-lake"],
      [BaseConfig EXCEPT !.glue_database = "other_db"],
      [BaseConfig EXCEPT !.raw_prefix = "landing/"],
      [BaseConfig EXCEPT !.processed_prefix = "curated/"],
      [BaseConfig EXCEPT !.analytics_prefix = "marts/"],
      [BaseConfig EXCEPT !.kms_key_id = "arn:aws:kms:us-east-1:123456789012:key/k1"],
      [BaseConfig EXCEPT !.crawler_name = "crawler"],
      [BaseConfig EXCEPT !.athena_workgroup = None],
      [BaseConfig EXCEPT !.table_format = "delta"] }

TagVariants == { [BaseConfig EXCEPT !.tags = t] : t \in TagSets }

NonDryConfigs == ScalarVariants \cup TagVariants

\* dry-run configurations: the defaults, one scalar change, one tag change
DryConfigs ==
    { [c EXCEPT !.dry_run = TRUE] :
        c \in { BaseConfig, [BaseConfig EXCEPT !.region = "eu-west-1"],
                [BaseConfig EXCEPT !.tags = [k \in {"Env"} |-> "prod"]] } }

StoreConfigs == NonDryConfigs \cup DryConfigs

\* outcome maps handed to save_deployment
OutcomeMaps ==
    { [k \in {"s3_bucket", "glue_database"} |-> "created"],
      [k \in {"s3_bucket", "glue_database"} |-> "updated"] }

(***************************************************************************)
(* state.py                                                                *)
(***************************************************************************)
_empty_state ==
    [version |-> "1.0", deployments |-> <<>>,
     current_config |-> EmptyDict, resources |-> EmptyDict]

\* the Deployment Record built at the top of save_deployment
DeploymentRecord(now, cfg, resources, success) ==
    [timestamp |-> now, success |-> success, region |-> cfg.region,
     bucket_name |-> cfg.bucket_name, glue_database |-> cfg.glue_database,
     resources |-> resources, dry_run |-> cfg.dry_run]

\* a snapshot that forgets the KMS key reference
SnapshotOfWithoutKms(cfg) ==
    [region |-> cfg.region, bucket_name |-> cfg.bucket_name,
     glue_database |-> cfg.glue_database, raw_prefix |-> cfg.raw_prefix,
     processed_prefix |-> cfg.processed_prefix,
     analytics_prefix |-> cfg.analytics_prefix,
     table_format |-> cfg.table_format, kms_key_id |-> None,
     crawler_name |-> cfg.crawler_name,
     athena_workgroup |-> cfg.athena_workgroup, tags |-> cfg.tags]

\* the reduced copy of the configuration kept as current_config
SnapshotOf(cfg) ==
    [region |-> cfg.region, bucket_name |-> cfg.bucket_name,
     glue_database |-> cfg.glue_database, raw_prefix |-> cfg.raw_prefix,
     processed_prefix |-> cfg.processed_prefix,
     analytics_prefix |-> cfg.analytics_prefix,
     table_format |-> cfg.table_format, kms_key_id |-> cfg.kms_key_id,
     crawler_name |-> cfg.crawler_name,
     athena_workgroup |-> cfg.athena_workgroup, tags |-> cfg.tags]

\* a truncation that keeps the oldest records instead of the newest
TruncateHistoryKeepOldest(deployments) ==
    IF Len(deployments) > HistoryLimit
    THEN SubSeq(deployments, 1, HistoryLimit) ELSE deployments

\* the history after the append and the truncation
TruncateHistory(deployments) ==
    IF Len(deployments) > HistoryLimit
    THEN LastN(deployments, HistoryLimit) ELSE deployments

\* a gate that forgets the dry-run flag
UpdatesSnapshotOnAnySuccess(cfg, success) == success

\* a gate that forgets the success flag
UpdatesSnapshotUnlessDryRun(cfg, success) == ~cfg.dry_run

\* whether save_deployment overwrites the snapshot
UpdatesSnapshot(cfg, success) == success /\ ~cfg.dry_run

\* StateManager.save_deployment: the state document it leaves in memory
save_deployment(st, now, cfg, resources, success) ==
    LET appended == Append(st.deployments,
                           DeploymentRecord(now, cfg, resources, success))
        st1 == [st EXCEPT !.deployments = TruncateHistory(appended)]
    IN  IF UpdatesSnapshot(cfg, success)
        THEN [st1 EXCEPT !.current_config = SnapshotOf(cfg),
                         !.resources = resources]
        ELSE st1

\* a comparison that reports the field whether it differs or not
ScalarDriftAlways(current, cfg, label, field) ==
    << <<label, Get(current, field), cfg[field]>> >>

\* one scalar comparison of detect_drift
ScalarDrift(current, cfg, label, field) ==
    IF Get(current, field) # cfg[field]
    THEN << <<label, Get(current, field), cfg[field]>> >>
    ELSE <<>>

\* the tag comparison of detect_drift
TagsAdded(old_tags, new_tags) == DOMAIN new_tags \ DOMAIN old_tags
TagsRemoved(old_tags, new_tags) == DOMAIN old_tags \ DOMAIN new_tags
\* a comparison that reports every common key, equal values or not
TagsChangedAllCommon(old_tags, new_tags) ==
    DOMAIN old_tags \cap DOMAIN new_tags

TagsChanged(old_tags, new_tags) ==
    {k \in DOMAIN old_tags \cap DOMAIN new_tags : old_tags[k] # new_tags[k]}

TagDrift(old_tags, new_tags) ==
    IF old_tags # new_tags
    THEN (IF TagsAdded(old_tags, new_tags) # {}
          THEN << <<"Tags added", TagsAdded(old_tags, new_tags)>> >>
          ELSE <<>>)
         \o (IF TagsRemoved(old_tags, new_tags) # {}
             THEN << <<"Tags removed", TagsRemoved(old_tags, new_tags)>> >>
             ELSE <<>>)
         \o (IF TagsChanged(old_tags, new_tags) # {}
             THEN << <<"Tags changed", TagsChanged(old_tags, new_tags)>> >>
             ELSE <<>>)
    ELSE <<>>

(***************************************************************************)
(* state.py: the state file.  A JSON object is a function from its keys, a *)
(* JSON array a record with the one field json_list holding its elements.  *)
(***************************************************************************)
\* the text json.dumps writes for the empty state
EmptyStateText ==
    "{\"version\": \"1.0\", \"deployments\": [], "
    \o "\"current_config\": {}, \"resources\": {}}"

\* the state file does not exist
FileAbsent == [exists |-> FALSE, content |-> ""]

FileWith(content) == [exists |-> TRUE, content |-> content]

\* the state files a store is constructed over
FileContents ==
    {FileAbsent, FileWith(""), FileWith("not json"), FileWith("{}"),
     FileWith("[]"), FileWith("{\"version\": \"1.0\"}"),
     FileWith("{\"deployments\": []}"), FileWith(EmptyStateText)}

\* json.loads: the document a text denotes, or JSONDecodeError
json_loads(content) ==
    CASE content = "{}" -> [raised |-> "none", value |-> EmptyDict]
      [] content = "[]" -> [raised |-> "none", value |-> [json_list |-> <<>>]]
      [] content = "{\"version\": \"1.0\"}" ->
            [raised |-> "none", value |-> [version |-> "1.0"]]
      [] content = "{\"deployments\": []}" ->
            [raised |-> "none", value |-> [deployments |-> <<>>]]
      [] content = EmptyStateText ->
            [raised |-> "none", value |-> _empty_state]
      [] OTHER -> [raised |-> "JSONDecodeError", value |-> EmptyDict]

\* StateManager._load_state: whatever the file parses to is the state
_load_state(f) ==
    IF f.exists
    THEN IF json_loads(f.content).raised = "none"
         THEN json_loads(f.content).value
         ELSE _empty_state
    ELSE _empty_state

\* a variant that empties the history and keeps the rest
clear_state_history_only(st) == [st EXCEPT !.deployments = <<>>]

\* StateManager.clear_state: the document that replaces the state
clear_state(st) == _empty_state

NoPreviousDeployment == << <<"No previous deployment found">> >>

\* StateManager.detect_drift: the report, a sequence of entries
detect_drift(st, cfg) ==
    IF ~Truthy(st.current_config)
    THEN NoPreviousDeployment
    ELSE LET current == st.current_config
         IN  ScalarDrift(current, cfg, "Region changed", "region")
             \o ScalarDrift(current, cfg, "Bucket name changed", "bucket_name")
             \o ScalarDrift(current, cfg, "Database changed", "glue_database")
             \o ScalarDrift(current, cfg, "Table format changed", "table_format")
             \o ScalarDrift(current, cfg, "KMS key changed", "kms_key_id")
             \o ScalarDrift(current, cfg, "raw_prefix changed", "raw_prefix")
             \o ScalarDrift(current, cfg, "processed_prefix changed",
                            "processed_prefix")
             \o ScalarDrift(current, cfg, "analytics_prefix changed",
                            "analytics_prefix")
             \o TagDrift(IF "tags" \in DOMAIN current
                         THEN current.tags ELSE EmptyDict, cfg.tags)

(***************************************************************************)
(* Configurations handed to deploy                                         *)
(***************************************************************************)
StrTruthy(s) == s \notin {None, ""}

KmsKey == "arn:aws:kms:us-east-1:123456789012:key/k1"
CrawlerRoleArn == "arn:aws:iam::123456789012:role/crawler-role"

Firehose1 ==
    [present |-> TRUE, stream_name |-> "ingest", role_name |-> "fh-role",
     prefix |-> None]

ProcRole(name) ==
    [present |-> TRUE, name |-> name, assume_role_policy |-> "glue-trust",
     managed_policy_arns |-> {"arn:aws:iam::aws:policy/AmazonS3ReadOnlyAccess"},
     inline_policies |-> ("etl" :> "etl-doc")]

VpcAll ==
    [present |-> TRUE, vpc_id |-> "vpc-1", subnet_ids |-> {"subnet-1"},
     security_group_ids |-> {"sg-1"}, route_table_ids |-> {"rtb-1"},
     enable_s3 |-> TRUE, enable_glue |-> TRUE, enable_athena |-> TRUE]

\* only the Glue interface endpoint, with no subnet or security group
VpcBare ==
    [present |-> TRUE, vpc_id |-> "vpc-1", subnet_ids |-> {},
     security_group_ids |-> {}, route_table_ids |-> {},
     enable_s3 |-> FALSE, enable_glue |-> TRUE, enable_athena |-> FALSE]

\* a section that enables no endpoint
VpcOff == [VpcAll EXCEPT !.enable_s3 = FALSE, !.enable_glue = FALSE,
                         !.enable_athena = FALSE]

Grant(principal, resource_type, table_name) ==
    [principal |-> principal, resource_type |-> resource_type,
     database_name |-> None, table_name |-> table_name,
     table_wildcard |-> FALSE, permissions |-> <<"SELECT">>,
     permissions_with_grant_option |-> <<>>]

LfOn ==
    [present |-> TRUE, enable_lake_formation |-> TRUE,
     data_lake_admins |-> <<"admin-role">>, register_s3_location |-> TRUE,
     use_lake_formation_credentials |-> TRUE,
     permissions |-> << Grant("analyst", "DATABASE", None),
                        Grant("analyst", "TABLE", "events") >>]

\* the first grant names a table resource and gives neither a table name
\* nor the wildcard
LfBadGrant ==
    [LfOn EXCEPT !.permissions = << Grant("analyst", "TABLE", None),
                                    Grant("analyst", "DATABASE", None) >>]

\* the stage enabled with nothing for it to do
LfBare ==
    [LfOn EXCEPT !.data_lake_admins = <<>>, !.register_s3_location = FALSE,
                 !.use_lake_formation_credentials = FALSE,
                 !.permissions = <<>>]

\* a section present with the enable flag left at its default
LfOff == [LfOn EXCEPT !.enable_lake_formation = FALSE]

\* every optional section and field given
FullConfig ==
    [BaseConfig EXCEPT !.vpc_endpoints = VpcAll,
                       !.processing_role = ProcRole("etl-role"),
                       !.firehose = Firehose1,
                       !.crawler_name = "crawler",
                       !.crawler_role_arn = CrawlerRoleArn,
                       !.crawler_schedule = "cron(0 2 * * ? *)",
                       !.transactional_table_name = "events",
                       !.lake_formation = LfOn,
                       !.kms_key_id = KmsKey,
                       !.region = "eu-west-1",
                       !.tags = ("Env" :> "dev")]

\* one section or field of c replaced
Toggles(c) ==
    { [c EXCEPT !.vpc_endpoints = v] : v \in {NoVpc, VpcAll, VpcBare, VpcOff} }
    \cup { [c EXCEPT !.processing_role = r] :
             r \in {NoRole, ProcRole("etl-role"), ProcRole("fh-role")} }
    \cup { [c EXCEPT !.firehose = f] : f \in {NoFirehose, Firehose1} }
    \cup { [c EXCEPT !.crawler_name = n[1], !.crawler_role_arn = n[2]] :
             n \in { <<None, None>>, <<"crawler", CrawlerRoleArn>>,
                     <<"crawler", None>> } }
    \cup { [c EXCEPT !.athena_workgroup = w] :
             w \in {None, "datalake-workgroup"} }
    \cup { [c EXCEPT !.enable_transactional_tables = t[1],
                     !.transactional_table_name = t[2]] :
             t \in { <<FALSE, None>>, <<TRUE, None>>, <<TRUE, "events">>,
                     <<FALSE, "events">> } }
    \cup { [c EXCEPT !.lake_formation = l] :
             l \in {NoLakeFormation, LfOn, LfOff, LfBadGrant, LfBare} }
    \cup { [c EXCEPT !.tags = t] : t \in {EmptyDict, ("Env" :> "dev")} }
    \cup { [c EXCEPT !.dry_run = d] : d \in BOOLEAN }
    \cup { [c EXCEPT !.region = r] : r \in {"us-east-1", "eu-west-1"} }

DeployConfigs == Toggles(BaseConfig) \cup Toggles(FullConfig)

(***************************************************************************)
(* The remote environment                                                  *)
(***************************************************************************)
AccountId == "123456789012"
Services == {"s3", "glue", "athena"}
RoleNames == {"etl-role", "fh-role", "test-lake-lakeformation-role"}

NoBucket ==
    [exists |-> FALSE, location |-> None, public_access_block |-> FALSE,
     versioning |-> None, encryption |-> None, tags |-> EmptyDict,
     objects |-> {}]

NoDatabase ==
    [exists |-> FALSE, location_uri |-> None, tags |-> EmptyDict,
     create_table_default_permissions |-> None]

NoRemoteRole ==
    [exists |-> FALSE, trust |-> None, tags |-> EmptyDict, attached |-> {},
     inline |-> EmptyDict]

NoStream ==
    [exists |-> FALSE, version |-> 0, destinations |-> <<>>,
     tags |-> EmptyDict]

NoCrawler ==
    [exists |-> FALSE, role |-> None, database |-> None, target |-> None,
     schedule |-> None, tags |-> EmptyDict]

NoWorkgroup ==
    [exists |-> FALSE, output_location |-> None, encryption |-> None,
     kms_key |-> None, tags |-> EmptyDict]

NoTable == [exists |-> FALSE, table_type |-> None, location |-> None]

EmptyRemote ==
    [bucket |-> NoBucket, database |-> NoDatabase,
     roles |-> [r \in RoleNames |-> NoRemoteRole],
     stream |-> NoStream, crawler |-> NoCrawler, workgroup |-> NoWorkgroup,
     table |-> NoTable,
     endpoints |-> [s \in Services |-> <<>>],
     lake |-> [admins |-> <<>>, registered |-> FALSE, grants |-> {}]]

(***************************************************************************)
(* Execution of a reconciler.  A context carries the remote environment,   *)
(* the calls issued, the exception in flight ("none" when there is none),  *)
(* the value returned, and the position of the call that fails for an      *)
(* outside reason (0: no call does).                                       *)
(***************************************************************************)
FaultCodes == {"AccessDenied"}

\* the errors a call of a stage can be answered with for an outside reason:
\* the workgroup and the table can vanish or be refused behind the back of
\* the run
FaultCodesOf(stage) ==
    CASE stage = "athena_workgroup" ->
            FaultCodes \cup {"InvalidRequestException: WorkGroup NOT FOUND",
                             "InvalidRequestException: Invalid configuration"}
      [] stage = "transactional_assets" ->
            FaultCodes \cup {"EntityNotFoundException"}
      [] OTHER -> FaultCodes

\* whether the service of an operation answers with an error: every service
\* denies access, Athena alone answers invalid-request errors and Glue alone
\* its not-found error
CanAnswer(op, code) ==
    \/ code \in FaultCodes
    \/ StartsWith(op, "athena.") /\ StartsWith(code, "InvalidRequestException")
    \/ StartsWith(op, "glue.") /\ code = "EntityNotFoundException"

Ctx(rem, fail, code) ==
    [remote |-> rem, calls |-> <<>>, err |-> "none", ret |-> None,
     fail |-> fail, code |-> code, injected |-> FALSE]

IsClientError(e) == e \notin {"none", "ValueError"}

\* the record of one remote call: the operation, its arguments and the error
\* code the service answered with ("none" when the call succeeded)
Issued(op, args, err) == [op |-> op, args |-> args, err |-> err]

\* one remote call: not issued while an exception is in flight; raises the
\* outside error when it is the failing call, raises errcode when the
\* service refuses it, and otherwise leaves the environment as newRemote
Call(c, op, args, errcode, newRemote) ==
    IF c.err # "none" THEN c
    ELSE IF Len(c.calls) + 1 = c.fail /\ CanAnswer(op, c.code)
         THEN [c EXCEPT !.calls = Append(@, Issued(op, args, c.code)),
                        !.err = c.code, !.injected = TRUE]
         ELSE IF errcode # "none"
              THEN [c EXCEPT !.calls = Append(@, Issued(op, args, errcode)),
                             !.err = errcode]
              ELSE [c EXCEPT !.calls = Append(@, Issued(op, args, "none")),
                             !.remote = newRemote]

\* except ClientError: pass / log a warning
Swallow(c) == IF IsClientError(c.err) THEN [c EXCEPT !.err = "none"] ELSE c

\* a try statement entered from c whose body and handlers end in r: it is
\* not entered at all while an exception is in flight
Try(c, r) == IF c.err # "none" THEN c ELSE r

\* enter an except block: the exception is handled
Handled(c) == [c EXCEPT !.err = "none"]

Raise(c, e) == IF c.err # "none" THEN c ELSE [c EXCEPT !.err = e]

Return(c, v) == IF c.err # "none" THEN c ELSE [c EXCEPT !.ret = v]

\* a local variable of a reconciler: Rest is the code that follows the
\* assignment of v
Bind(v, Rest(_)) == Rest(v)

\* _get_account_id: one sts call
_get_account_id(c) == Call(c, "sts.get_caller_identity", <<>>, "none", c.remote)

\* _tag_glue_resource: a failure of the tagging call is logged, not raised
_tag_glue_resource(c, kind, tags) ==
    Try(c, Swallow(Call(c, "glue.tag_resource", [resource |-> kind], "none",
                        [c.remote EXCEPT ![kind].tags = tags @@ @])))

(***************************************************************************)
(* Storage bucket                                                          *)
(***************************************************************************)
\* prefixes are normalised by validate_prefix to end with "/", so
\* prefix.rstrip("/") + "/" is the prefix itself
MarkerKey(prefix) == prefix

\* _bucket_exists: a context whose ret is TRUE or FALSE, or an exception
_bucket_exists(c) ==
    Bind(Call(c, "s3.head_bucket", <<>>,
              IF c.remote.bucket.exists THEN "none" ELSE "404", c.remote),
    LAMBDA c1 :
      IF c1.err = "none" THEN Return(c1, TRUE)
      ELSE IF c1.err \in {"NoSuchBucket", "404"} THEN Return(Handled(c1), FALSE)
      ELSE IF c1.err = "301" THEN Return(Handled(c1), TRUE)
      ELSE c1)

PutMarker(c, prefix) ==
    Call(c, "s3.put_object", [key |-> MarkerKey(prefix)], "none",
         [c.remote EXCEPT !.bucket.objects = @ \cup {MarkerKey(prefix)}])

_ensure_prefixes(c, cfg) ==
    PutMarker(PutMarker(PutMarker(c, cfg.raw_prefix), cfg.processed_prefix),
              cfg.analytics_prefix)

\* a variant that labels the bucket `created` on every run
BucketLabelAlwaysCreated(created) == "created"

\* a variant that swaps the two labels
BucketLabelSwapped(created) == IF created THEN "updated" ELSE "created"

BucketLabel(created) == IF created THEN "created" ELSE "updated"

\* the PublicAccessBlockConfiguration _ensure_bucket sends
AllPublicAccessBlocked ==
    [BlockPublicAcls |-> TRUE, IgnorePublicAcls |-> TRUE,
     BlockPublicPolicy |-> TRUE, RestrictPublicBuckets |-> TRUE]

\* a variant that hardens only the bucket it has just created
_ensure_bucket_harden_new_only(c, cfg) ==
    Bind(_bucket_exists(c), LAMBDA c1 :
    Bind(c1.err = "none" /\ c1.ret = FALSE, LAMBDA created :
    Bind(IF created
         THEN Call(c1, "s3.create_bucket",
                   [location_constraint |->
                       IF cfg.region # "us-east-1" THEN cfg.region ELSE None],
                   IF c1.remote.bucket.exists
                   THEN "BucketAlreadyOwnedByYou" ELSE "none",
                   [c1.remote EXCEPT !.bucket =
                       [NoBucket EXCEPT !.exists = TRUE,
                                        !.location = cfg.region]])
         ELSE c1, LAMBDA c2 :
    Bind(IF ~created THEN c2 ELSE
         Call(c2, "s3.put_public_access_block", AllPublicAccessBlocked,
              "none",
              [c2.remote EXCEPT !.bucket.public_access_block =
                  \A flag \in DOMAIN AllPublicAccessBlocked :
                      AllPublicAccessBlocked[flag]]),
    LAMBDA c3 :
    Bind(IF ~created THEN c3 ELSE
         Call(c3, "s3.put_bucket_versioning", [Status |-> "Enabled"], "none",
              [c3.remote EXCEPT !.bucket.versioning = "Enabled"]),
    LAMBDA c4 :
    Bind(IF StrTruthy(cfg.kms_key_id)
         THEN Call(c4, "s3.put_bucket_encryption", <<>>, "none",
                   [c4.remote EXCEPT !.bucket.encryption = cfg.kms_key_id])
         ELSE c4, LAMBDA c5 :
    Bind(IF Truthy(cfg.tags)
         THEN Call(c5, "s3.put_bucket_tagging", <<>>, "none",
                   [c5.remote EXCEPT !.bucket.tags = cfg.tags])
         ELSE c5, LAMBDA c6 :
    Return(_ensure_prefixes(c6, cfg), BucketLabel(created)))))))))

_ensure_bucket(c, cfg) ==
    Bind(_bucket_exists(c), LAMBDA c1 :
    Bind(c1.err = "none" /\ c1.ret = FALSE, LAMBDA created :
    Bind(IF created
         THEN Call(c1, "s3.create_bucket",
                   [location_constraint |->
                       IF cfg.region # "us-east-1" THEN cfg.region ELSE None],
                   IF c1.remote.bucket.exists
                   THEN "BucketAlreadyOwnedByYou" ELSE "none",
                   [c1.remote EXCEPT !.bucket =
                       [NoBucket EXCEPT !.exists = TRUE,
                                        !.location = cfg.region]])
         ELSE c1, LAMBDA c2 :
    Bind(Call(c2, "s3.put_public_access_block", AllPublicAccessBlocked,
              "none",
              [c2.remote EXCEPT !.bucket.public_access_block =
                  \A flag \in DOMAIN AllPublicAccessBlocked :
                      AllPublicAccessBlocked[flag]]),
    LAMBDA c3 :
    Bind(Call(c3, "s3.put_bucket_versioning", [Status |-> "Enabled"], "none",
              [c3.remote EXCEPT !.bucket.versioning = "Enabled"]),
    LAMBDA c4 :
    Bind(IF StrTruthy(cfg.kms_key_id)
         THEN Call(c4, "s3.put_bucket_encryption", <<>>, "none",
                   [c4.remote EXCEPT !.bucket.encryption = cfg.kms_key_id])
         ELSE c4, LAMBDA c5 :
    Bind(IF Truthy(cfg.tags)
         THEN Call(c5, "s3.put_bucket_tagging", <<>>, "none",
                   [c5.remote EXCEPT !.bucket.tags = cfg.tags])
         ELSE c5, LAMBDA c6 :
    Return(_ensure_prefixes(c6, cfg), BucketLabel(created)))))))))

(***************************************************************************)
(* Catalog database                                                        *)
(***************************************************************************)
_ensure_glue_database(c, cfg) ==
    Bind(Call(c, "glue.get_database", <<>>,
              IF c.remote.database.exists
              THEN "none" ELSE "EntityNotFoundException", c.remote),
    LAMBDA c1 :
    \* the try block: the tags of the existing database
    Bind(IF Truthy(cfg.tags)
         THEN _tag_glue_resource(_get_account_id(c1), "database", cfg.tags)
         ELSE c1, LAMBDA t1 :
    IF t1.err = "none" THEN Return(t1, "updated")
    ELSE IF t1.err = "EntityNotFoundException"
    THEN \* the except block: create, then tag
         Bind(Call(Handled(t1), "glue.create_database", <<>>,
                   IF t1.remote.database.exists
                   THEN "AlreadyExistsException" ELSE "none",
                   [t1.remote EXCEPT !.database =
                       [NoDatabase EXCEPT
                          !.exists = TRUE,
                          !.location_uri = "s3://" \o cfg.bucket_name \o "/"
                                             \o cfg.analytics_prefix]]),
         LAMBDA h1 :
         Return(IF Truthy(cfg.tags)
                THEN _tag_glue_resource(_get_account_id(h1), "database",
                                        cfg.tags)
                ELSE h1, "created"))
    ELSE t1))

(***************************************************************************)
(* Crawler                                                                 *)
(***************************************************************************)
CrawlerTarget(cfg) ==
    IF StrTruthy(cfg.crawler_s3_target_path)
    THEN cfg.crawler_s3_target_path
    ELSE "s3://" \o cfg.bucket_name \o "/" \o cfg.raw_prefix

\* the crawler after create_crawler / update_crawler with the arguments built
\* from cfg: the schedule is passed only when one is configured
CrawlerSettings(old, cfg) ==
    [old EXCEPT !.exists = TRUE, !.role = cfg.crawler_role_arn,
                !.database = cfg.glue_database, !.target = CrawlerTarget(cfg),
                !.schedule = IF StrTruthy(cfg.crawler_schedule)
                             THEN cfg.crawler_schedule ELSE @]

_ensure_glue_crawler(c, cfg) ==
    IF ~StrTruthy(cfg.crawler_role_arn) THEN Raise(c, "ValueError")
    ELSE
    Bind(Call(c, "glue.get_crawler", <<>>,
              IF c.remote.crawler.exists
              THEN "none" ELSE "EntityNotFoundException", c.remote),
    LAMBDA c1 :
    Bind(IF c1.err = "EntityNotFoundException" THEN Handled(c1) ELSE c1,
    LAMBDA c2 :
    Try(c, IF c1.err = "none"
           THEN Bind(Call(c2, "glue.update_crawler", <<>>, "none",
                          [c2.remote EXCEPT
                             !.crawler = CrawlerSettings(@, cfg)]),
                LAMBDA u1 :
                Return(IF Truthy(cfg.tags)
                       THEN _tag_glue_resource(_get_account_id(u1), "crawler",
                                               cfg.tags)
                       ELSE u1, "updated"))
           ELSE Return(Call(c2, "glue.create_crawler", <<>>,
                            IF c2.remote.crawler.exists
                            THEN "AlreadyExistsException" ELSE "none",
                            [c2.remote EXCEPT !.crawler =
                                [CrawlerSettings(NoCrawler, cfg)
                                   EXCEPT !.tags = cfg.tags]]),
                       "created"))))

(***************************************************************************)
(* Query workgroup                                                         *)
(***************************************************************************)
\* the invalid-request error Athena answers for an unknown workgroup
AthenaNotFound == "InvalidRequestException: WorkGroup is not found"
AthenaAlreadyCreated == "InvalidRequestException: WorkGroup is already created"

\* an invalid-request error of another kind, and one whose message spells
\* the words in capitals
AthenaInvalid == "InvalidRequestException: Invalid configuration"
AthenaNotFoundCapitals == "InvalidRequestException: WorkGroup NOT FOUND"

\* exc.response["Error"]["Code"] and ["Message"] of an error written as
\* "code: message"; an error written as a bare code has an empty message
ErrorCode(e) ==
    IF Contains(e, ": ") THEN SubSeq(e, 1, NthPosition(e, ":", 1) - 1) ELSE e

ErrorMessage(e) ==
    IF Contains(e, ": ")
    THEN SubSeq(e, NthPosition(e, ":", 1) + 2, Len(e)) ELSE ""

\* a test that looks for the words as they are written
IsWorkgroupNotFoundAsWritten(e) ==
    /\ ErrorCode(e) = "InvalidRequestException"
    /\ Contains(ErrorMessage(e), "not found")

\* error_code == "InvalidRequestException" and "not found" in the message
\* put in lower case
NotFoundTest(e) ==
    /\ ErrorCode(e) = "InvalidRequestException"
    /\ Contains(Lower(ErrorMessage(e)), "not found")

\* the test worked out once for the errors the calls of the workgroup
\* reconciler are answered with, and on the spot for any other error
WorkgroupErrors ==
    {"AccessDenied", AthenaNotFound, AthenaNotFoundCapitals, AthenaInvalid,
     AthenaAlreadyCreated}

NotFoundTestOf == [e \in WorkgroupErrors |-> NotFoundTest(e)]

IsWorkgroupNotFound(e) ==
    IF e \in WorkgroupErrors THEN NotFoundTestOf[e] ELSE NotFoundTest(e)

WorkgroupSettings(old, cfg) ==
    [old EXCEPT !.exists = TRUE,
                !.output_location = "s3://" \o cfg.bucket_name \o "/"
                                      \o cfg.analytics_prefix \o "athena-results/",
                !.encryption = IF StrTruthy(cfg.kms_key_id)
                               THEN "SSE_KMS" ELSE "SSE_S3",
                !.kms_key = IF StrTruthy(cfg.kms_key_id)
                            THEN cfg.kms_key_id ELSE None]

_ensure_athena_workgroup(c, cfg) ==
    \* the try block
    Bind(Call(c, "athena.get_work_group", <<>>,
              IF c.remote.workgroup.exists THEN "none" ELSE AthenaNotFound,
              c.remote),
    LAMBDA t1 :
    Bind(Call(t1, "athena.update_work_group", <<>>, "none",
              [t1.remote EXCEPT !.workgroup = WorkgroupSettings(@, cfg)]),
    LAMBDA t2 :
    Bind(IF Truthy(cfg.tags)
         THEN Bind(_get_account_id(t2), LAMBDA a :
                   Call(a, "athena.tag_resource", <<>>, "none",
                        [a.remote EXCEPT !.workgroup.tags = cfg.tags @@ @]))
         ELSE t2, LAMBDA t3 :
    Try(c, IF t3.err = "none" THEN Return(t3, "updated")
           ELSE IF IsClientError(t3.err) /\ IsWorkgroupNotFound(t3.err)
           THEN \* after the except block, which re-raises all but "not found"
                Return(Call(Handled(t3), "athena.create_work_group", <<>>,
                            IF t3.remote.workgroup.exists
                            THEN AthenaAlreadyCreated ELSE "none",
                            [t3.remote EXCEPT !.workgroup =
                                [WorkgroupSettings(NoWorkgroup, cfg)
                                   EXCEPT !.tags = cfg.tags]]),
                       "created")
           ELSE t3))))

(***************************************************************************)
(* IAM role                                                                *)
(***************************************************************************)
RoleArn(name) == "arn:aws:iam::" \o AccountId \o ":role/" \o name

\* the elements of a set in some fixed order (the order of a Python list or
\* dict that holds them)
RECURSIVE SetToSeq(_)
SetToSeq(S) ==
    IF S = {} THEN <<>>
    ELSE LET x == CHOOSE x \in S : TRUE IN <<x>> \o SetToSeq(S \ {x})

\* a test that attaches every configured reference again
NeedsAttachAlways(policy_arn, attached_arns) == TRUE

\* if policy_arn not in attached_arns
NeedsAttach(policy_arn, attached_arns) == policy_arn \notin attached_arns

\* for policy_arn in managed_policy_arns: attach it unless already attached
RECURSIVE AttachMissing(_, _, _, _)
AttachMissing(c, name, arns, attached_arns) ==
    IF arns = <<>> THEN c
    ELSE AttachMissing(
           IF NeedsAttach(Head(arns), attached_arns)
           THEN Call(c, "iam.attach_role_policy", [policy |-> Head(arns)],
                     "none",
                     [c.remote EXCEPT !.roles[name].attached = @ \cup {Head(arns)}])
           ELSE c,
           name, Tail(arns), attached_arns)

\* for policy_name, document in inline_policies.items(): put it
RECURSIVE PutInline(_, _, _, _)
PutInline(c, name, names, inline_policies) ==
    IF names = <<>> THEN c
    ELSE PutInline(
           Call(c, "iam.put_role_policy", [policy |-> Head(names)], "none",
                [c.remote EXCEPT !.roles[name].inline =
                    (Head(names) :> inline_policies[Head(names)]) @@ @]),
           name, Tail(names), inline_policies)

\* for policy_name in existing_inline: delete it
RECURSIVE DeleteInline(_, _, _)
DeleteInline(c, name, names) ==
    IF names = <<>> THEN c
    ELSE DeleteInline(
           Call(c, "iam.delete_role_policy", [policy |-> Head(names)], "none",
                [c.remote EXCEPT !.roles[name].inline =
                    [k \in DOMAIN @ \ {Head(names)} |-> @[k]]]),
           name, Tail(names))

\* a reconciler that leaves every inline policy it finds
UnmanagedInlineKept(existing_inline, inline_policies) == {}

\* the inline policies that the role reconciler deletes: those found on the
\* role and not named in the configuration
UnmanagedInline(existing_inline, inline_policies) ==
    existing_inline \ DOMAIN inline_policies

_ensure_iam_role(c, role_config, tags) ==
    LET name == role_config.name IN
    Bind(Call(c, "iam.get_role", [role |-> name],
              IF c.remote.roles[name].exists THEN "none" ELSE "NoSuchEntity",
              c.remote),
    LAMBDA g :
    Bind(g.err = "NoSuchEntity", LAMBDA created :
    Bind(IF created
         THEN \* except NoSuchEntity: create the role
              Call(Handled(g), "iam.create_role", [role |-> name],
                   IF g.remote.roles[name].exists
                   THEN "EntityAlreadyExists" ELSE "none",
                   [g.remote EXCEPT !.roles[name] =
                       [NoRemoteRole EXCEPT
                          !.exists = TRUE,
                          !.trust = role_config.assume_role_policy,
                          !.tags = tags]])
         ELSE IF g.err = "none"
         THEN \* else: refresh the trust policy and the tags
              Bind(Call(g, "iam.update_assume_role_policy", [role |-> name],
                        "none",
                        [g.remote EXCEPT !.roles[name].trust =
                                             role_config.assume_role_policy]),
              LAMBDA u1 :
              IF ~Truthy(tags) THEN u1
              ELSE
              Bind(Call(u1, "iam.list_role_tags", [role |-> name], "none",
                        u1.remote),
              LAMBDA u2 :
              Bind(IF Truthy(u2.remote.roles[name].tags)
                   THEN Call(u2, "iam.untag_role", [role |-> name], "none",
                             [u2.remote EXCEPT !.roles[name].tags = EmptyDict])
                   ELSE u2, LAMBDA u3 :
              Bind(Try(u1, Swallow(u3)), LAMBDA u4 :
              Call(u4, "iam.tag_role", [role |-> name], "none",
                   [u4.remote EXCEPT !.roles[name].tags = tags @@ @])))))
         ELSE g, LAMBDA r1 :
    Bind(Call(r1, "iam.list_attached_role_policies", [role |-> name],
              "none", r1.remote),
    LAMBDA r2 :
    Bind(AttachMissing(r2, name, SetToSeq(role_config.managed_policy_arns),
                       r2.remote.roles[name].attached),
    LAMBDA r3 :
    Bind(Call(r3, "iam.list_role_policies", [role |-> name], "none",
              r3.remote),
    LAMBDA r4 :
    Bind(DOMAIN r4.remote.roles[name].inline, LAMBDA existing_inline :
    Bind(PutInline(r4, name, SetToSeq(DOMAIN role_config.inline_policies),
                   role_config.inline_policies),
    LAMBDA r5 :
    Try(c, Return(DeleteInline(r5, name,
                               SetToSeq(UnmanagedInline(
                                          existing_inline,
                                          role_config.inline_policies))),
                  IF created THEN "created" ELSE "updated"))))))))))

(***************************************************************************)
(* Ingestion stream                                                        *)
(***************************************************************************)
FirehoseRoleConfig(cfg) ==
    [present |-> TRUE, name |-> cfg.firehose.role_name,
     assume_role_policy |-> "firehose.amazonaws.com",
     managed_policy_arns |-> {},
     inline_policies |->
        ("firehose-access" :>
            IF StrTruthy(cfg.kms_key_id) THEN "s3-and-kms" ELSE "s3-only")]

_ensure_firehose_role(c, cfg) ==
    _ensure_iam_role(c, FirehoseRoleConfig(cfg), cfg.tags)

\* _role_arn: one get_role call
_role_arn(c, name) ==
    Return(Call(c, "iam.get_role", [role |-> name],
                IF c.remote.roles[name].exists THEN "none" ELSE "NoSuchEntity",
                c.remote),
           RoleArn(name))

StreamDestination(cfg, role_arn) ==
    [id |-> "destinationId-000000000001", role_arn |-> role_arn,
     bucket_arn |-> "arn:aws:s3:::" \o cfg.bucket_name,
     prefix |-> MarkerKey(IF StrTruthy(cfg.firehose.prefix)
                          THEN cfg.firehose.prefix ELSE cfg.raw_prefix),
     compression_format |-> "GZIP"]

\* a variant that passes on a version token of its own making
_firehose_version_guessed(description) ==
    [version |-> description.version + 1,
     destination_id |-> description.destinations[1].id]

\* _firehose_version_and_destination: the version token and the identifier
\* of the first destination of a description that has destinations
_firehose_version_and_destination(description) ==
    [version |-> description.version,
     destination_id |-> description.destinations[1].id]

_ensure_firehose_stream(c, cfg) ==
    Bind(_ensure_firehose_role(c, cfg), LAMBDA r :
    Bind(Call(r, "firehose.describe_delivery_stream", <<>>,
              IF r.remote.stream.exists
              THEN "none" ELSE "ResourceNotFoundException", r.remote),
    LAMBDA d :
    \* the description returned by the describe call
    Bind(d.remote.stream, LAMBDA description :
    Bind(_role_arn(IF d.err = "ResourceNotFoundException"
                   THEN Handled(d) ELSE d,
                   cfg.firehose.role_name),
    LAMBDA a :
    Try(r, IF d.err = "none"
           THEN \* _firehose_version_and_destination, then the update
                Bind(IF description.destinations = <<>>
                     THEN Raise(a, "ValueError") ELSE a, LAMBDA v :
                Return(
                  Call(v, "firehose.update_destination",
                       [version |->
                           _firehose_version_and_destination(
                               description).version,
                        destination |->
                           _firehose_version_and_destination(
                               description).destination_id],
                       IF v.remote.stream.version # description.version
                       THEN "ConcurrentModificationException" ELSE "none",
                       [v.remote EXCEPT
                          !.stream.destinations =
                              <<StreamDestination(cfg, a.ret)>>,
                          !.stream.version = @ + 1]),
                  "updated"))
           ELSE Return(
                  Call(a, "firehose.create_delivery_stream", <<>>,
                       IF a.remote.stream.exists
                       THEN "ResourceInUseException" ELSE "none",
                       [a.remote EXCEPT !.stream =
                           [exists |-> TRUE, version |-> 1,
                            destinations |->
                                <<StreamDestination(cfg, a.ret)>>,
                            tags |-> cfg.tags]]),
                  "created"))))))

(***************************************************************************)
(* Network endpoints                                                       *)
(***************************************************************************)
ServiceName(cfg, service) == "com.amazonaws." \o cfg.region \o "." \o service

\* describe_vpc_endpoints filtered on (vpc-id, service-name, endpoint type):
\* the positions of the matching endpoints
MatchingEndpoints(rem, cfg, service, type) ==
    { i \in 1 .. Len(rem.endpoints[service]) :
        LET e == rem.endpoints[service][i]
        IN  /\ e.vpc_id = cfg.vpc_endpoints.vpc_id
            /\ e.service_name = ServiceName(cfg, service)
            /\ e.type = type }

FirstMatch(rem, cfg, service, type) ==
    CHOOSE i \in MatchingEndpoints(rem, cfg, service, type) :
        \A j \in MatchingEndpoints(rem, cfg, service, type) : i <= j

NewEndpoint(cfg, service, type) ==
    [vpc_id |-> cfg.vpc_endpoints.vpc_id,
     service_name |-> ServiceName(cfg, service), type |-> type,
     route_table_ids |-> IF type = "Gateway"
                         THEN cfg.vpc_endpoints.route_table_ids ELSE {},
     subnet_ids |-> IF type = "Interface"
                    THEN cfg.vpc_endpoints.subnet_ids ELSE {},
     security_group_ids |-> IF type = "Interface"
                            THEN cfg.vpc_endpoints.security_group_ids ELSE {},
     tags |-> cfg.tags]

CreateEndpoint(c, cfg, service, type) ==
    Call(c, "ec2.create_vpc_endpoint", [service |-> service, type |-> type],
         "none",
         [c.remote EXCEPT !.endpoints[service] =
                              Append(@, NewEndpoint(cfg, service, type))])

\* whether an error of the existence check sends the reconciler on to the
\* create call
EndpointCheckFallsThrough(e) == IsClientError(e)

_ensure_s3_gateway_endpoint(c, cfg) ==
    LET vpc == cfg.vpc_endpoints IN
    \* the try block
    Bind(Call(c, "ec2.describe_vpc_endpoints",
              [service |-> "s3", type |-> "Gateway"], "none", c.remote),
    LAMBDA d :
    Bind(d.err = "none"
         /\ MatchingEndpoints(d.remote, cfg, "s3", "Gateway") # {},
    LAMBDA found :
    Bind(IF found /\ vpc.route_table_ids # {}
         THEN Bind(FirstMatch(d.remote, cfg, "s3", "Gateway"), LAMBDA i :
              Call(d, "ec2.modify_vpc_endpoint", [service |-> "s3"], "none",
                   [d.remote EXCEPT !.endpoints["s3"][i].route_table_ids =
                                        @ \cup vpc.route_table_ids]))
         ELSE d, LAMBDA m :
    Try(c, IF found /\ m.err = "none" THEN Return(m, "updated")
           ELSE IF m.err = "none" \/ EndpointCheckFallsThrough(m.err)
           THEN Return(CreateEndpoint(Handled(m), cfg, "s3", "Gateway"),
                       "created")
           ELSE m))))

_ensure_interface_endpoint(c, cfg, service) ==
    LET vpc == cfg.vpc_endpoints
        needs_update == vpc.security_group_ids # {} \/ vpc.subnet_ids # {}
    IN
    Bind(Call(c, "ec2.describe_vpc_endpoints",
              [service |-> service, type |-> "Interface"], "none", c.remote),
    LAMBDA d :
    Bind(d.err = "none"
         /\ MatchingEndpoints(d.remote, cfg, service, "Interface") # {},
    LAMBDA found :
    Bind(IF found /\ needs_update
         THEN Bind(FirstMatch(d.remote, cfg, service, "Interface"), LAMBDA i :
              Call(d, "ec2.modify_vpc_endpoint", [service |-> service], "none",
                   [d.remote EXCEPT
                      !.endpoints[service][i].security_group_ids =
                          @ \cup vpc.security_group_ids,
                      !.endpoints[service][i].subnet_ids =
                          @ \cup vpc.subnet_ids]))
         ELSE d, LAMBDA m :
    Try(c, IF found /\ m.err = "none"
           THEN Return(m, IF needs_update THEN "updated" ELSE "skipped")
           ELSE IF m.err = "none" \/ EndpointCheckFallsThrough(m.err)
           THEN Return(CreateEndpoint(Handled(m), cfg, service, "Interface"),
                       "created")
           ELSE m))))

\* a variant that leaves the counts out of the label
EndpointsLabelPlain(created_count, updated_count) ==
    IF created_count > 0 THEN "created"
    ELSE IF updated_count > 0 THEN "updated" ELSE "skipped"

\* the label _ensure_vpc_endpoints builds from its two counters
EndpointsLabel(created_count, updated_count) ==
    IF created_count > 0
    THEN "created (" \o ToString(created_count) \o " endpoints)"
    ELSE IF updated_count > 0
         THEN "updated (" \o ToString(updated_count) \o " endpoints)"
         ELSE "skipped"

_ensure_vpc_endpoints(c, cfg) ==
    LET vpc == cfg.vpc_endpoints IN
    Bind(IF vpc.enable_s3 THEN _ensure_s3_gateway_endpoint(c, cfg)
         ELSE Return(c, "off"), LAMBDA s :
    Bind(IF vpc.enable_glue THEN _ensure_interface_endpoint(s, cfg, "glue")
         ELSE Return(s, "off"), LAMBDA g :
    Bind(IF vpc.enable_athena THEN _ensure_interface_endpoint(g, cfg, "athena")
         ELSE Return(g, "off"), LAMBDA a :
    Bind(<<s.ret, g.ret, a.ret>>, LAMBDA statuses :
    Return(a, EndpointsLabel(
                Cardinality({k \in 1 .. 3 : statuses[k] = "created"}),
                Cardinality({k \in 1 .. 3 : statuses[k] = "updated"})))))))

(***************************************************************************)
(* Transactional table asset                                               *)
(***************************************************************************)
TableInput(cfg) ==
    [exists |-> TRUE, table_type |-> cfg.table_format,
     location |-> "s3://" \o cfg.bucket_name \o "/" \o cfg.analytics_prefix
                    \o cfg.transactional_table_name \o "/"]

_ensure_transactional_assets(c, cfg) ==
    IF ~StrTruthy(cfg.transactional_table_name) THEN Return(c, "skipped")
    ELSE IF Lower(cfg.table_format) \notin {"iceberg", "delta"}
         THEN Raise(c, "ValueError")
    ELSE
    \* the try block
    Bind(Call(c, "glue.get_table", <<>>,
              IF c.remote.table.exists
              THEN "none" ELSE "EntityNotFoundException", c.remote),
    LAMBDA t1 :
    Bind(Call(t1, "glue.update_table", <<>>, "none",
              [t1.remote EXCEPT !.table = TableInput(cfg)]),
    LAMBDA t2 :
    Try(c, IF t2.err = "none" THEN Return(t2, "updated")
           ELSE IF t2.err = "EntityNotFoundException"
           THEN \* the except block
                Return(Call(Handled(t2), "glue.create_table", <<>>,
                            IF t2.remote.table.exists
                            THEN "AlreadyExistsException" ELSE "none",
                            [t2.remote EXCEPT !.table = TableInput(cfg)]),
                       "created")
           ELSE t2)))

(***************************************************************************)
(* Access grants (Lake Formation)                                          *)
(***************************************************************************)
IsArn(s) == s \in {"arn:aws:iam::123456789012:role/admin-role"}

\* the sts calls made while the administrator list is built: one for every
\* administrator given by name
RECURSIVE AdminAccountLookups(_, _)
AdminAccountLookups(c, admins) ==
    IF admins = <<>> THEN c
    ELSE AdminAccountLookups(IF IsArn(Head(admins)) THEN c
                             ELSE _get_account_id(c),
                             Tail(admins))

AdminArn(admin) == IF IsArn(admin) THEN admin ELSE RoleArn(admin)

_set_data_lake_admins(c, admins) ==
    Bind(AdminAccountLookups(
           Call(c, "lakeformation.get_data_lake_settings", <<>>, "none",
                c.remote),
           admins),
    LAMBDA a :
    Try(c, Swallow(
             Call(a, "lakeformation.put_data_lake_settings", <<>>, "none",
                  [a.remote EXCEPT !.lake.admins =
                      [k \in 1 .. Len(admins) |-> AdminArn(admins[k])]]))))

LfServiceRoleName(cfg) == cfg.bucket_name \o "-lakeformation-role"

LfServiceRoleConfig(cfg) ==
    [present |-> TRUE, name |-> LfServiceRoleName(cfg),
     assume_role_policy |-> "lakeformation.amazonaws.com",
     managed_policy_arns |-> {},
     inline_policies |-> ("lakeformation-s3-access" :> "s3-access")]

_get_or_create_lf_service_role(c, cfg) ==
    LET name == LfServiceRoleName(cfg) IN
    Bind(Call(c, "iam.get_role", [role |-> name],
              IF c.remote.roles[name].exists THEN "none" ELSE "NoSuchEntity",
              c.remote),
    LAMBDA g :
    Try(c, IF g.err = "none" THEN Return(g, RoleArn(name))
           ELSE IF g.err = "NoSuchEntity"
           THEN Return(_get_account_id(
                         _ensure_iam_role(Handled(g), LfServiceRoleConfig(cfg),
                                          cfg.tags)),
                       RoleArn(name))
           ELSE g))

_register_s3_location(c, cfg) ==
    Bind(Call(c, "lakeformation.list_resources", <<>>, "none", c.remote),
    LAMBDA l :
    Try(c, IF l.err = "none" /\ l.remote.lake.registered
           THEN l
           ELSE Bind(_get_or_create_lf_service_role(l, cfg), LAMBDA r :
                Swallow(Call(r, "lakeformation.register_resource", <<>>,
                             IF r.remote.lake.registered
                             THEN "AlreadyExistsException" ELSE "none",
                             [r.remote EXCEPT !.lake.registered = TRUE])))))

_update_database_for_lake_formation(c, cfg) ==
    Bind(Call(c, "glue.get_database", <<>>,
              IF c.remote.database.exists
              THEN "none" ELSE "EntityNotFoundException", c.remote),
    LAMBDA g :
    Try(c, Swallow(Call(g, "glue.update_database", <<>>, "none",
                        [g.remote EXCEPT
                           !.database.create_table_default_permissions =
                               "[]"]))))

\* the grants for which _build_lf_resource raises ValueError
LfResourceInvalid(perm) ==
    \/ perm.resource_type \notin {"DATABASE", "TABLE", "DATA_LOCATION"}
    \/ /\ perm.resource_type = "TABLE"
       /\ ~perm.table_wildcard
       /\ ~StrTruthy(perm.table_name)

\* _build_lf_resource: the resource named by a valid grant
_build_lf_resource(perm, cfg) ==
    LET database == IF StrTruthy(perm.database_name)
                    THEN perm.database_name ELSE cfg.glue_database
    IN  IF perm.resource_type = "DATABASE" THEN <<"Database", database>>
        ELSE IF perm.resource_type = "TABLE"
        THEN <<"Table", database,
               IF perm.table_wildcard THEN "*" ELSE perm.table_name>>
        ELSE <<"DataLocation", "arn:aws:s3:::" \o cfg.bucket_name>>

\* whether a failed grant call still counts as granted
CountsAsGranted(e) == e = "AlreadyExistsException"

\* one iteration of the loop over the grants: the context carries the count
\* in ret
GrantOne(c, perm, cfg) ==
    IF c.err # "none" THEN c
    ELSE IF LfResourceInvalid(perm) THEN Raise(c, "ValueError")
    ELSE Bind(Call(c, "lakeformation.grant_permissions",
                   [principal |-> perm.principal,
                    resource |-> _build_lf_resource(perm, cfg)],
                   "none",
                   [c.remote EXCEPT !.lake.grants =
                       @ \cup {<<perm.principal,
                                 _build_lf_resource(perm, cfg),
                                 perm.permissions>>}]),
         LAMBDA g :
         IF g.err = "none" THEN [g EXCEPT !.ret = @ + 1]
         ELSE IF CountsAsGranted(g.err) THEN [Handled(g) EXCEPT !.ret = @ + 1]
         ELSE Swallow(g))

RECURSIVE GrantAll(_, _, _)
GrantAll(c, permissions, cfg) ==
    IF permissions = <<>> THEN c
    ELSE GrantAll(GrantOne(c, Head(permissions), cfg), Tail(permissions), cfg)

_grant_lake_formation_permissions(c, cfg, permissions) ==
    GrantAll(Return(c, 0), permissions, cfg)

\* ", ".join(actions_taken)
RECURSIVE Join(_)
Join(parts) ==
    IF parts = <<>> THEN ""
    ELSE IF Len(parts) = 1 THEN parts[1]
    ELSE parts[1] \o ", " \o Join(Tail(parts))

LakeFormationLabel(actions_taken) ==
    IF actions_taken # <<>>
    THEN "configured: " \o Join(actions_taken) ELSE "configured"

_ensure_lake_formation(c, cfg) ==
    LET lf == cfg.lake_formation
        actions_before_grants ==
            (IF lf.data_lake_admins # <<>> THEN <<"admins">> ELSE <<>>)
            \o (IF lf.register_s3_location THEN <<"s3_location">> ELSE <<>>)
            \o (IF lf.use_lake_formation_credentials
                THEN <<"database_settings">> ELSE <<>>)
    IN
    Bind(IF lf.data_lake_admins # <<>>
         THEN _set_data_lake_admins(c, lf.data_lake_admins) ELSE c, LAMBDA a :
    Bind(IF lf.register_s3_location THEN _register_s3_location(a, cfg) ELSE a,
    LAMBDA r :
    Bind(IF lf.use_lake_formation_credentials
         THEN _update_database_for_lake_formation(r, cfg) ELSE r, LAMBDA u :
    Bind(IF lf.permissions # <<>>
         THEN _grant_lake_formation_permissions(u, cfg, lf.permissions)
         ELSE u, LAMBDA g :
    Return(g, LakeFormationLabel(
                actions_before_grants
                \o (IF lf.permissions # <<>>
                    THEN <<"permissions(" \o ToString(g.ret) \o ")">>
                    ELSE <<>>)))))))

(***************************************************************************)
(* DataLakeDeployer.deploy                                                 *)
(***************************************************************************)
\* a variant that reconciles the bucket before the network endpoints
StagesBucketFirst ==
    <<"s3_bucket", "vpc_endpoints", "glue_database", "processing_role",
      "firehose_stream", "glue_crawler", "athena_workgroup",
      "transactional_assets", "lake_formation">>

\* the stages in the order deploy runs them; each name is the stage's key
\* in the outcome map
Stages ==
    <<"vpc_endpoints", "s3_bucket", "glue_database", "processing_role",
      "firehose_stream", "glue_crawler", "athena_workgroup",
      "transactional_assets", "lake_formation">>

StageIndex(stage) == CHOOSE i \in 1 .. Len(Stages) : Stages[i] = stage

\* a variant whose access-grant gate tests the section alone
GateOnSectionOnly(stage, cfg) ==
    CASE stage = "vpc_endpoints" -> cfg.vpc_endpoints.present
      [] stage = "s3_bucket" -> TRUE
      [] stage = "glue_database" -> TRUE
      [] stage = "processing_role" -> cfg.processing_role.present
      [] stage = "firehose_stream" -> cfg.firehose.present
      [] stage = "glue_crawler" -> StrTruthy(cfg.crawler_name)
      [] stage = "athena_workgroup" -> StrTruthy(cfg.athena_workgroup)
      [] stage = "transactional_assets" -> cfg.enable_transactional_tables
      [] stage = "lake_formation" -> cfg.lake_formation.present

\* the condition deploy tests before it runs a stage
Gate(stage, cfg) ==
    CASE stage = "vpc_endpoints" -> cfg.vpc_endpoints.present
      [] stage = "s3_bucket" -> TRUE
      [] stage = "glue_database" -> TRUE
      [] stage = "processing_role" -> cfg.processing_role.present
      [] stage = "firehose_stream" -> cfg.firehose.present
      [] stage = "glue_crawler" -> StrTruthy(cfg.crawler_name)
      [] stage = "athena_workgroup" -> StrTruthy(cfg.athena_workgroup)
      [] stage = "transactional_assets" -> cfg.enable_transactional_tables
      [] stage = "lake_formation" ->
            cfg.lake_formation.present
            /\ cfg.lake_formation.enable_lake_formation

\* the reconciler deploy calls for a stage
Ensure(stage, c, cfg) ==
    CASE stage = "vpc_endpoints" -> _ensure_vpc_endpoints(c, cfg)
      [] stage = "s3_bucket" -> _ensure_bucket(c, cfg)
      [] stage = "glue_database" -> _ensure_glue_database(c, cfg)
      [] stage = "processing_role" ->
            _ensure_iam_role(c, cfg.processing_role, cfg.tags)
      [] stage = "firehose_stream" -> _ensure_firehose_stream(c, cfg)
      [] stage = "glue_crawler" -> _ensure_glue_crawler(c, cfg)
      [] stage = "athena_workgroup" -> _ensure_athena_workgroup(c, cfg)
      [] stage = "transactional_assets" -> _ensure_transactional_assets(c, cfg)
      [] stage = "lake_formation" -> _ensure_lake_formation(c, cfg)

\* where deploy goes after stage i
AfterStage(i) == IF i = Len(Stages) THEN "return" ELSE Stages[i + 1]

\* what the caller of deploy holds: nothing yet, the returned map, or the
\* exception that propagated (and then no map)
Nothing ==
    [kind |-> "nothing", map |-> <<>>, error |-> "none", class |-> "none",
     cause |-> None]
ReturnedMap(map) ==
    [kind |-> "map", map |-> map, error |-> "none", class |-> "none",
     cause |-> None]

\* the class of the exception object in flight: the remote clients raise
\* ClientError carrying the error code, the reconcilers raise ValueError
ExceptionClass(e) == IF IsClientError(e) THEN "ClientError" ELSE e

\* deploy has no try statement and no reconciler is wrapped: the exception
\* reaches the caller as it was raised, with no cause attached
Raised(e) ==
    [kind |-> "exception", map |-> <<>>, error |-> e,
     class |-> ExceptionClass(e), cause |-> None]

\* the calls of a stage, each marked with the stage that issued it
Marked(stage, cs) ==
    [k \in 1 .. Len(cs) |-> [stage |-> stage, op |-> cs[k].op,
                             args |-> cs[k].args, err |-> cs[k].err]]

\* the positions at which a call of a stage can fail for an outside reason
FaultPositions == 0 .. MaxCallsPerStage

DeployIdle ==
    /\ remote = EmptyRemote
    /\ pc = "idle"
    /\ summary = <<>>
    /\ returned = Nothing
    /\ calls = <<>>
    /\ run = 0
    /\ before = EmptyRemote
    /\ prev = "none"
    /\ faults = 0

DeployInit ==
    /\ config \in DeployConfigs
    /\ DeployIdle

\* the caller invokes deploy(config)
Deploy ==
    /\ pc \in {"idle", "returned", "raised"}
    /\ run < MaxRuns
    /\ run' = run + 1
    /\ prev' = IF pc = "idle" THEN "none" ELSE pc
    /\ pc' = Stages[1]
    /\ summary' = <<>>
    /\ returned' = Nothing
    /\ calls' = <<>>
    /\ before' = remote
    /\ UNCHANGED <<config, remote, faults>>
    /\ UNCHANGED <<storeVars, retryVars, toolVars>>

\* a variant that goes on with the next stage after a stage has raised
AfterRaiseContinue(i) == AfterStage(i)

\* where deploy is after stage i has raised: nothing in deploy catches, the
\* exception leaves it at once
AfterRaise(i) == "raised"

\* stage i of deploy: skipped when its gate is closed, else the reconciler
\* runs to its end, and its label is stored or its exception propagates
Stage(i) ==
    /\ pc = Stages[i]
    /\ IF ~Gate(Stages[i], config)
       THEN /\ pc' = AfterStage(i)
            /\ UNCHANGED <<remote, summary, returned, calls, faults>>
       ELSE \E at \in FaultPositions, code \in FaultCodesOf(Stages[i]) :
              LET r == Ensure(Stages[i], Ctx(remote, at, code), config)
              IN  /\ at > 0 => (r.injected /\ faults < MaxFaults)
                  /\ faults' = faults + (IF r.injected THEN 1 ELSE 0)
                  /\ remote' = r.remote
                  /\ calls' = calls \o Marked(Stages[i], r.calls)
                  /\ IF r.err = "none"
                     THEN /\ summary' = Append(summary, <<Stages[i], r.ret>>)
                          /\ pc' = AfterStage(i)
                          /\ returned' = returned
                     ELSE /\ summary' = summary
                          /\ pc' = AfterRaise(i)
                          /\ returned' = Raised(r.err)
    /\ UNCHANGED <<config, run, before, prev>>
    /\ UNCHANGED <<storeVars, retryVars, toolVars>>

EnsureVpcEndpoints == Stage(1)
EnsureBucket == Stage(2)
EnsureGlueDatabase == Stage(3)
EnsureProcessingRole == Stage(4)
EnsureFirehoseStream == Stage(5)
EnsureGlueCrawler == Stage(6)
EnsureAthenaWorkgroup == Stage(7)
EnsureTransactionalAssets == Stage(8)
EnsureLakeFormation == Stage(9)

\* return summary
ReturnSummary ==
    /\ pc = "return"
    /\ pc' = "returned"
    /\ returned' = ReturnedMap(summary)
    /\ UNCHANGED <<config, remote, summary, calls, run, before, prev, faults>>
    /\ UNCHANGED <<storeVars, retryVars, toolVars>>

DeployNext ==
    \/ Deploy
    \/ EnsureVpcEndpoints
    \/ EnsureBucket
    \/ EnsureGlueDatabase
    \/ EnsureProcessingRole
    \/ EnsureFirehoseStream
    \/ EnsureGlueCrawler
    \/ EnsureAthenaWorkgroup
    \/ EnsureTransactionalAssets
    \/ EnsureLakeFormation
    \/ ReturnSummary

(***************************************************************************)
(* exceptions.py: retry_on_throttle                                        *)
(*                                                                         *)
(* retry holds one call of the wrapper: the decorator's arguments, the  *)
(* loop variable attempt, last_exception, the outcome of every invocation  *)
(* of the wrapped function so far, the delays slept, and what the caller   *)
(* obtained.                                                               *)
(***************************************************************************)
\* the error codes the wrapper retries on
ThrottlingCodes ==
    {"ThrottlingException", "TooManyRequestsException", "RequestLimitExceeded",
     "Throttling", "ProvisionedThroughputExceededException"}

\* what one invocation of the wrapped function can do: return, raise a
\* ClientError with some code, or raise another exception
FuncOutcomes ==
    {"ok", "ThrottlingException", "Throttling", "AccessDenied", "ValueError"}

IsClientErrorCode(o) == o \notin {"ok", "ValueError"}

MaxRetriesValues == -1 .. MaxRetries
BaseDelays == {1, 2}

NoResult == [kind |-> "none", value |-> None, cause |-> None]
Returns(v) == [kind |-> "return", value |-> v, cause |-> None]
\* an exception that propagates as it was raised by the wrapped function
Reraises(o) ==
    [kind |-> "raise",
     value |-> IF IsClientErrorCode(o) THEN "ClientError" ELSE o,
     cause |-> IF IsClientErrorCode(o) THEN o ELSE None]
\* raise DeploymentError(...) from last_exception
RaisesDeploymentError(last_exception) ==
    [kind |-> "raise", value |-> "DeploymentError", cause |-> last_exception]

RetryIdle ==
    [pc |-> "idle", max_retries |-> 0, base_delay |-> 1, attempt |-> 0,
     last_exception |-> None, invoked |-> <<>>, slept |-> <<>>,
     result |-> NoResult]

\* the wrapper is called: range(max_retries) is empty when
\* max_retries <= 0
RetryCall ==
    /\ retry.pc = "idle"
    /\ \E m \in MaxRetriesValues, d \in BaseDelays :
          retry' = [RetryIdle EXCEPT !.max_retries = m, !.base_delay = d,
                                     !.pc = IF m > 0 THEN "loop"
                                            ELSE "after_loop"]
    /\ UNCHANGED <<storeVars, deployVars, toolVars>>

\* a variant that retries without looking at the attempt number
RetriesAgainAlways(attempt, max_retries) == TRUE

\* if attempt < max_retries - 1
RetriesAgain(attempt, max_retries) == attempt < max_retries - 1

\* one pass of the loop body: the wrapped function is invoked; a throttling
\* error is remembered and, unless this was the last attempt, slept on;
\* every other case ends the call
RetryAttempt ==
    /\ retry.pc = "loop"
    /\ \E o \in FuncOutcomes :
         LET invoked == Append(retry.invoked, o)
         IN  retry' =
               IF o = "ok"
               THEN [retry EXCEPT !.invoked = invoked, !.pc = "done",
                                  !.result = Returns("ok")]
               ELSE IF IsClientErrorCode(o) /\ o \in ThrottlingCodes
                       /\ RetriesAgain(retry.attempt, retry.max_retries)
               THEN [retry EXCEPT !.invoked = invoked, !.last_exception = o,
                                  !.pc = "sleep"]
               ELSE IF IsClientErrorCode(o) /\ o \in ThrottlingCodes
               THEN \* the last attempt: falls through to the bare raise
                    [retry EXCEPT !.invoked = invoked, !.last_exception = o,
                                  !.pc = "done", !.result = Reraises(o)]
               ELSE [retry EXCEPT !.invoked = invoked, !.pc = "done",
                                  !.result = Reraises(o)]
    /\ UNCHANGED <<storeVars, deployVars, toolVars>>

\* time.sleep(base_delay * 2 ** attempt); continue
RetrySleep ==
    /\ retry.pc = "sleep"
    /\ retry' = [retry EXCEPT
                   !.slept = Append(@, retry.base_delay * 2 ^ retry.attempt),
                   !.attempt = @ + 1,
                   !.pc = IF retry.attempt + 1 < retry.max_retries
                          THEN "loop" ELSE "after_loop"]
    /\ UNCHANGED <<storeVars, deployVars, toolVars>>

\* the code after the loop: DeploymentError when a throttling error was
\* remembered, else one invocation whose outcome is the wrapper's
RetryAfterLoop ==
    /\ retry.pc = "after_loop"
    /\ IF retry.last_exception # None
       THEN retry' = [retry EXCEPT
                        !.pc = "done",
                        !.result = RaisesDeploymentError(retry.last_exception)]
       ELSE \E o \in FuncOutcomes :
              retry' = [retry EXCEPT
                          !.invoked = Append(@, o), !.pc = "done",
                          !.result = IF o = "ok" THEN Returns("ok")
                                     ELSE Reraises(o)]
    /\ UNCHANGED <<storeVars, deployVars, toolVars>>

RetryNext == RetryCall \/ RetryAttempt \/ RetrySleep \/ RetryAfterLoop

(***************************************************************************)
(* validators.py: the checks, character by character.  No input holds a    *)
(* line break.                                                             *)
(***************************************************************************)
\* validate_bucket_name: TRUE when it does not raise
validate_bucket_name(bucket_name) ==
    /\ bucket_name # ""
    /\ 3 <= Len(bucket_name) /\ Len(bucket_name) <= 63
    /\ CharAt(bucket_name, 1) \in LowerLetters \cup Digits
    /\ CharAt(bucket_name, Len(bucket_name)) \in LowerLetters \cup Digits
    /\ AllIn(bucket_name, LowerLetters \cup Digits \cup {".", "-"})
    /\ ~Contains(bucket_name, "..")
    /\ ~Contains(bucket_name, ".-") /\ ~Contains(bucket_name, "-.")
    /\ ~(/\ AllIn(bucket_name, Digits \cup {"."})
         /\ Cardinality(PositionsOf(bucket_name, ".")) = 3)

\* validate_region: two letters, a dash, letters, a dash, one digit
validate_region(region) ==
    /\ region # ""
    /\ Cardinality(PositionsOf(region, "-")) = 2
    /\ NthPosition(region, "-", 1) = 3
    /\ AllIn(SubSeq(region, 1, 2), LowerLetters)
    /\ NthPosition(region, "-", 2) > 4
    /\ AllIn(SubSeq(region, 4, NthPosition(region, "-", 2) - 1), LowerLetters)
    /\ Len(region) = NthPosition(region, "-", 2) + 1
    /\ CharAt(region, Len(region)) \in Digits

validate_database_name(database_name) ==
    /\ database_name # ""
    /\ 1 <= Len(database_name) /\ Len(database_name) <= 255
    /\ AllIn(database_name, LowerLetters \cup UpperLetters \cup Digits \cup {"_"})

validate_table_format(table_format) ==
    Lower(table_format) \in {"iceberg", "delta"}

\* the account field of the pattern: twelve digits
ArnAccount(account) ==
    AllIn(account, Digits) /\ Len(account) = 12

\* the partition field of the pattern: aws, then lower-case letters and dashes
StartsWithAws(partition) ==
    /\ Len(partition) >= 3
    /\ SubSeq(partition, 1, 3) = "aws"
    /\ AllIn(partition, LowerLetters \cup {"-"})

\* re.match of arn_pattern: the fields between the first five colons, and
\* what follows the fifth
MatchesArnPattern(arn) ==
    /\ Cardinality(PositionsOf(arn, ":")) >= 5
    /\ LET at(n) == NthPosition(arn, ":", n)
           field(n) == SubSeq(arn, at(n - 1) + 1, at(n) - 1)
       IN  /\ SubSeq(arn, 1, at(1) - 1) = "arn"
           /\ StartsWithAws(field(2))
           /\ Len(field(3)) >= 1
           /\ AllIn(field(3), LowerLetters \cup Digits \cup {"-"})
           /\ AllIn(field(4), LowerLetters \cup Digits \cup {"-"})
           /\ ArnAccount(field(5))
           /\ Len(arn) > at(5)

\* validate_arn: TRUE when it does not raise; resource_type may be None
validate_arn(arn, resource_type) ==
    /\ arn # ""
    /\ MatchesArnPattern(arn)
    /\ resource_type # None =>
          \/ Contains(arn, ":" \o resource_type \o "/")
          \/ EndsWith(arn, ":" \o resource_type)

\* validate_tags over a dictionary of strings
validate_tags(tags) ==
    \A key \in DOMAIN tags :
        /\ key # ""
        /\ Len(key) <= 128
        /\ Len(tags[key]) <= 256

\* validate_prefix: whether it raises, and the prefix it returns
PrefixAccepted(prefix) ==
    /\ prefix # ""
    /\ AllIn(prefix, LowerLetters \cup UpperLetters \cup Digits
                       \cup {"/", "_", "-"})

validate_prefix(prefix) ==
    IF EndsWith(prefix, "/") THEN prefix ELSE prefix \o "/"

(***************************************************************************)
(* config.py: a DataLakeConfig from its construction to deploy             *)
(***************************************************************************)
RegionInputs == {"us-east-1", "eu-west-2", "us-gov-west-1", "mars"}
BucketInputs == {"test-lake", "Test_Lake", "a..b", "192.168.1.1", "ab"}
DatabaseInputs == {"test_db", "test-db", ""}
PrefixInputs == {"raw/", "raw", "raw data"}
FormatInputs == {"iceberg", "Delta", "hudi"}
KmsInputs ==
    {None, "arn:aws:kms:us-east-1:123456789012:key/k1",
     "arn:aws:iam::123456789012:role/r1", "k1"}
RoleInputs ==
    {None, "arn:aws:iam::123456789012:role/r1", "arn:aws:s3:::my-bucket"}
TagInputs ==
    {EmptyDict, [k \in {"Env"} |-> "prod"], [k \in {""} |-> "dev"]}

ArnInputs ==
    {"arn:aws:iam::123456789012:role/MyRole",
     "arn:aws:kms:us-east-1:123456789012:key/12345678-1234-1234-1234-123456789012",
     "arn:aws:s3:::my-bucket", "arn:aws-cn:s3:::other-bucket",
     "arn:aws:lambda:us-east-1:123456789012:function:f:1",
     "arn:aws:iam::12345:role/MyRole", "arn:aws:iam::123456789012:",
     "not-an-arn", ""}

NoFields ==
    [region |-> None, bucket_name |-> None, glue_database |-> None,
     raw_prefix |-> None, table_format |-> None, kms_key_id |-> None,
     crawler_role_arn |-> None, tags |-> EmptyDict]

NothingMade ==
    [pc |-> "idle", config |-> NoFields, arn |-> None,
     resource_type |-> None, accepted |-> FALSE]

\* the truth value Python gives an optional string
TruthyText(value) == value # None /\ value # ""

\* DataLakeConfig.__post_init__: TRUE when no validator raises
post_init_accepts(f) ==
    /\ validate_region(f.region)
    /\ validate_bucket_name(f.bucket_name)
    /\ validate_database_name(f.glue_database)
    /\ PrefixAccepted(f.raw_prefix)
    /\ validate_table_format(f.table_format)
    /\ TruthyText(f.kms_key_id) => validate_arn(f.kms_key_id, "key")
    /\ TruthyText(f.crawler_role_arn) => validate_arn(f.crawler_role_arn, "role")
    /\ Truthy(f.tags) => validate_tags(f.tags)

\* DataLakeConfig(...), directly or through from_mapping and from_toml: the
\* object with its prefix normalised, or ValidationError and no object
MakeConfig ==
    /\ made.pc = "idle"
    /\ \E region \in RegionInputs, bucket_name \in BucketInputs,
          glue_database \in DatabaseInputs, raw_prefix \in PrefixInputs,
          table_format \in FormatInputs, kms_key_id \in KmsInputs,
          crawler_role_arn \in RoleInputs, tags \in TagInputs :
          LET f == [region |-> region, bucket_name |-> bucket_name,
                    glue_database |-> glue_database,
                    raw_prefix |-> raw_prefix,
                    table_format |-> table_format,
                    kms_key_id |-> kms_key_id,
                    crawler_role_arn |-> crawler_role_arn, tags |-> tags]
          IN  made' =
                IF post_init_accepts(f)
                THEN [made EXCEPT !.pc = "constructed",
                         !.config = [f EXCEPT !.raw_prefix =
                                        validate_prefix(raw_prefix)]]
                ELSE [made EXCEPT !.pc = "rejected"]
    /\ UNCHANGED <<disk, stores, cli>>
    /\ UNCHANGED <<storeVars, deployVars, retryVars>>

\* config.region = args.region, as main does after from_toml: a plain
\* attribute assignment on the dataclass, which runs no validator
AssignRegion ==
    /\ made.pc = "constructed"
    /\ \E region \in RegionInputs :
          made' = [made EXCEPT !.config.region = region, !.pc = "assigned"]
    /\ UNCHANGED <<disk, stores, cli>>
    /\ UNCHANGED <<storeVars, deployVars, retryVars>>

\* deploy(config) is entered with the object: deploy runs no validator
EnterDeploy ==
    /\ made.pc \in {"constructed", "assigned"}
    /\ made' = [made EXCEPT !.pc = "deploying"]
    /\ UNCHANGED <<disk, stores, cli>>
    /\ UNCHANGED <<storeVars, deployVars, retryVars>>

\* validate_arn(arn, resource_type) called on its own
CheckArn ==
    /\ made.pc = "idle"
    /\ \E arn \in ArnInputs, resource_type \in {None, "role", "key"} :
          made' = [made EXCEPT !.pc = "checked", !.arn = arn,
                      !.resource_type = resource_type,
                      !.accepted = validate_arn(arn, resource_type)]
    /\ UNCHANGED <<disk, stores, cli>>
    /\ UNCHANGED <<storeVars, deployVars, retryVars>>

ConfigNext == MakeConfig \/ AssignRegion \/ EnterDeploy \/ CheckArn

(***************************************************************************)
(* state.py: the state file on disk, shared by several store instances.    *)
(*                                                                         *)
(* The text of a document is written in WriteChunks pieces; the file holds *)
(* a sequence of pieces.  Each store writes through a file object of its   *)
(* own, with its own position.                                             *)
(***************************************************************************)
Instances == {"A", "B"}

Chunk(doc, k) == [doc |-> doc, part |-> k]

\* the bytes a write past the end of the file leaves in between
Hole == Chunk(_empty_state, 0)

\* json.dumps(self.state, indent=2), cut into the pieces written
TextOf(doc) == [k \in 1 .. WriteChunks |-> Chunk(doc, k)]

NoFile == [exists |-> FALSE, content |-> <<>>]

\* whether the content of the file is the complete text of one document
IsWholeText(content) ==
    /\ Len(content) = WriteChunks
    /\ \A k \in 1 .. WriteChunks :
          content[k].part = k /\ content[k].doc = content[1].doc

\* _load_state over the shared file: a text that does not parse gives the
\* empty state
LoadFromDisk(d) ==
    IF d.exists
    THEN IF IsWholeText(d.content) THEN d.content[1].doc ELSE _empty_state
    ELSE _empty_state

NoStore ==
    [pc |-> "none", state |-> _empty_state, loaded |-> _empty_state,
     saves |-> 0, position |-> 0, began |-> 0, ended |-> 0]

PersistIdle ==
    /\ disk = NoFile
    /\ stores = [i \in Instances |-> NoStore]

\* the opens and the completed writes so far, in all processes: a clock for
\* the order in which the writers begin and end
EventsOf(i) ==
    2 * stores[i].saves
      - (IF stores[i].pc \in {"writing", "stopped"} THEN 1 ELSE 0)

Events == EventsOf("A") + EventsOf("B")

\* StateManager(state_file) in process i
Construct(i) ==
    /\ stores[i].pc = "none"
    /\ stores' = [stores EXCEPT ![i].pc = "ready",
                                ![i].state = LoadFromDisk(disk),
                                ![i].loaded = LoadFromDisk(disk)]
    /\ UNCHANGED <<disk, cli, made>>
    /\ UNCHANGED <<storeVars, deployVars, retryVars>>

\* a variant that loads the file again before it records
StateToUpdateReloaded(i) == LoadFromDisk(disk)

\* the document save_deployment updates: the one held in memory
StateToUpdate(i) == stores[i].state

\* open(..., "w"): the file is created or cut to length zero
OpenForWriting(d) == [exists |-> TRUE, content |-> <<>>]

\* save_deployment in process i, up to the open of write_text
SaveOpen(i) ==
    /\ stores[i].pc = "ready"
    /\ stores[i].saves < MaxPersistSaves
    /\ \E in \in { <<BaseConfig, TRUE>>, <<BaseConfig, FALSE>> } :
          stores' = [stores EXCEPT
             ![i].pc = "writing",
             ![i].saves = @ + 1,
             ![i].position = 0,
             ![i].began = Events + 1,
             ![i].ended = 0,
             ![i].state =
                 save_deployment(StateToUpdate(i),
                                 IF i = "A" THEN 1 ELSE 2, in[1],
                                 [k \in {"s3_bucket"} |-> "created"], in[2])]
    /\ disk' = OpenForWriting(disk)
    /\ UNCHANGED <<cli, made>>
    /\ UNCHANGED <<storeVars, deployVars, retryVars>>

\* the content of the file after a piece is written at a position
WriteAt(content, position, chunk) ==
    [k \in 1 .. (IF Len(content) > position + 1 THEN Len(content)
                 ELSE position + 1) |->
        IF k = position + 1 THEN chunk
        ELSE IF k <= Len(content) THEN content[k] ELSE Hole]

\* one write call of write_text in process i; the last one ends the save
SaveWrite(i) ==
    /\ stores[i].pc = "writing"
    /\ disk' = [disk EXCEPT !.content =
                   WriteAt(@, stores[i].position,
                           TextOf(stores[i].state)[stores[i].position + 1])]
    /\ stores' = [stores EXCEPT
          ![i].position = @ + 1,
          ![i].pc = IF stores[i].position + 1 = WriteChunks
                    THEN "ready" ELSE "writing",
          ![i].ended = IF stores[i].position + 1 = WriteChunks
                       THEN Events + 1 ELSE 0]
    /\ UNCHANGED <<cli, made>>
    /\ UNCHANGED <<storeVars, deployVars, retryVars>>

\* process i stops while its write is under way
Stop(i) ==
    /\ stores[i].pc = "writing"
    /\ stores' = [stores EXCEPT ![i].pc = "stopped"]
    /\ UNCHANGED <<disk, cli, made>>
    /\ UNCHANGED <<storeVars, deployVars, retryVars>>

PersistNext ==
    \E i \in Instances : Construct(i) \/ SaveOpen(i) \/ SaveWrite(i) \/ Stop(i)

\* no run of main yet
NoArgs ==
    [region |-> None, dry_run |-> FALSE, estimate_cost |-> FALSE,
     show_history |-> FALSE, show_drift |-> FALSE, state_file |-> None,
     access_key |-> None]

CliIdle ==
    [pc |-> "idle", args |-> NoArgs, exit_code |-> -1, error |-> "none",
     manager |-> FALSE, report |-> "none", deployer |-> FALSE,
     deploys |-> 0, lines |-> <<>>]

ToolsIdle ==
    /\ PersistIdle
    /\ cli = CliIdle
    /\ made = NothingMade

(***************************************************************************)
(* Store operations                                                        *)
(***************************************************************************)
NoOp == [op |-> "none"]

StoreIdle ==
    /\ state = _empty_state
    /\ clock = 0
    /\ recorded = <<>>
    /\ lastOp = NoOp
    /\ file = FileAbsent

\* the store alone: no deploy is running
StoreInit ==
    /\ StoreIdle
    /\ config = BaseConfig
    /\ DeployIdle
    /\ retry = RetryIdle /\ ToolsIdle

DoSave(cfg, resources, success) ==
    /\ state' = save_deployment(state, clock + 1, cfg, resources, success)
    /\ clock' = clock + 1
    /\ recorded' = Append(recorded,
                          DeploymentRecord(clock + 1, cfg, resources, success))
    /\ lastOp' = [op |-> "save_deployment", config |-> cfg,
                  resources |-> resources, success |-> success]
    /\ UNCHANGED <<file, deployVars, retryVars, toolVars>>

\* save_deployment called with any configuration, outcome map and flag
SaveDeployment ==
    /\ clock < MaxSaves
    /\ \E cfg \in StoreConfigs, resources \in OutcomeMaps, success \in BOOLEAN :
          DoSave(cfg, resources, success)

\* a configuration that differs from the defaults in the fields and sections
\* that are not in the snapshot
OtherFieldVariants ==
    { [BaseConfig EXCEPT !.crawler_schedule = "cron(0 2 * * ? *)",
                         !.crawler_role_arn = CrawlerRoleArn,
                         !.processing_role = ProcRole("etl-role"),
                         !.vpc_endpoints = VpcAll,
                         !.lake_formation = LfOn] }

\* detect_drift called with any configuration: reads the state only
DetectDrift ==
    /\ lastOp.op # "detect_drift"
    /\ \E cfg \in StoreConfigs \cup OtherFieldVariants :
          lastOp' = [op |-> "detect_drift", config |-> cfg,
                     report |-> detect_drift(state, cfg)]
    /\ UNCHANGED <<state, clock, recorded, file>>
    /\ UNCHANGED <<deployVars, retryVars, toolVars>>

StoreNext == SaveDeployment \/ DetectDrift

SpecStore == StoreInit /\ [][StoreNext]_vars

\* a long run of recordings, to exercise the truncation of the history
HistInputs ==
    { <<BaseConfig, TRUE>>, <<BaseConfig, FALSE>>,
      <<[BaseConfig EXCEPT !.dry_run = TRUE], TRUE>> }

SaveDeploymentLong ==
    /\ clock < MaxHistSaves
    /\ \E in \in HistInputs :
          DoSave(in[1], [k \in {"s3_bucket", "glue_database"} |-> "updated"],
                 in[2])

HistoryNext == SaveDeploymentLong

SpecHistory == StoreInit /\ [][HistoryNext]_vars

\* clear_state: the records built so far no longer count
ClearState ==
    /\ lastOp.op # "clear_state"
    /\ state' = clear_state(state)
    /\ recorded' = <<>>
    /\ lastOp' = [op |-> "clear_state"]
    /\ UNCHANGED <<clock, file>>
    /\ UNCHANGED <<deployVars, retryVars, toolVars>>

\* a few recordings, with reports and clearings between them
SaveDeploymentShort ==
    /\ clock < MaxClearSaves
    /\ \E in \in HistInputs :
          DoSave(in[1], [k \in {"s3_bucket"} |-> "created"], in[2])

ClearNext == SaveDeploymentShort \/ DetectDrift \/ ClearState

SpecClear == StoreInit /\ [][ClearNext]_vars

\* the deployer alone: the store is left as constructed
\* deploy starts from an empty remote environment, the store untouched
\* the operations of a store over the document it loaded
IsJsonObject(doc) == "json_list" \notin DOMAIN doc

\* d[k] = v on a dict
Assign(d, k, v) == [x \in DOMAIN d \cup {k} |-> IF x = k THEN v ELSE d[x]]

NoneRaised(result, st) == [raised |-> "none", result |-> result, state |-> st]
RaisedBy(e, st) == [raised |-> e, result |-> None, state |-> st]

\* save_deployment on whatever document the store holds: the subscript
\* self.state["deployments"] raises on an array and on a missing key
SaveOutcome(st, now, cfg, resources, success) ==
    IF ~IsJsonObject(st) THEN RaisedBy("TypeError", st)
    ELSE IF "deployments" \notin DOMAIN st THEN RaisedBy("KeyError", st)
    ELSE IF DOMAIN st = DOMAIN _empty_state
    THEN NoneRaised(None, save_deployment(st, now, cfg, resources, success))
    ELSE Bind(Assign(st, "deployments",
                     TruncateHistory(
                        Append(st.deployments,
                               DeploymentRecord(now, cfg, resources,
                                                success)))),
         LAMBDA st1 :
         NoneRaised(None,
                    IF UpdatesSnapshot(cfg, success)
                    THEN Assign(Assign(st1, "current_config", SnapshotOf(cfg)),
                                "resources", resources)
                    ELSE st1))

\* detect_drift on whatever document the store holds: self.state.get
\* raises on an array and answers None for a missing key
DriftOutcome(st, cfg) ==
    IF ~IsJsonObject(st) THEN RaisedBy("AttributeError", st)
    ELSE IF "current_config" \notin DOMAIN st
    THEN NoneRaised(NoPreviousDeployment, st)
    ELSE NoneRaised(detect_drift(st, cfg), st)

\* the Python slice s[-limit:]: a start of -limit below zero counts from the
\* end, and a start of zero, which -0 is, is the beginning of the list
SliceFromMinus(s, limit) ==
    IF limit > 0
    THEN SubSeq(s, (IF Len(s) > limit THEN Len(s) - limit ELSE 0) + 1, Len(s))
    ELSE SubSeq(s, (IF -limit < Len(s) THEN -limit ELSE Len(s)) + 1, Len(s))

\* get_deployment_history(limit)
HistoryOutcome(st, limit) ==
    IF ~IsJsonObject(st) THEN RaisedBy("AttributeError", st)
    ELSE IF "deployments" \notin DOMAIN st THEN NoneRaised(<<>>, st)
    ELSE NoneRaised(SliceFromMinus(st.deployments, limit), st)

\* the last record of a successful run that was not a dry run, or None
LastSuccessful(deployments) ==
    Bind({i \in 1 .. Len(deployments) :
             deployments[i].success /\ ~deployments[i].dry_run},
         LAMBDA hits :
         IF hits = {} THEN <<>>
         ELSE << deployments[CHOOSE i \in hits : \A j \in hits : j <= i] >>)

\* get_last_successful_deployment
LastSuccessfulOutcome(st) ==
    IF ~IsJsonObject(st) THEN RaisedBy("AttributeError", st)
    ELSE IF "deployments" \notin DOMAIN st THEN NoneRaised(<<>>, st)
    ELSE NoneRaised(LastSuccessful(st.deployments), st)

\* a store constructed over a state file, no deploy running
FileInit ==
    /\ file \in FileContents
    /\ state = _load_state(file)
    /\ clock = 0
    /\ recorded = <<>>
    /\ lastOp = NoOp
    /\ config = BaseConfig
    /\ DeployIdle
    /\ retry = RetryIdle /\ ToolsIdle

FileSave ==
    /\ clock < MaxFileSaves
    /\ \E in \in HistInputs :
         LET out == SaveOutcome(state, clock + 1, in[1],
                                [k \in {"s3_bucket"} |-> "created"], in[2])
         IN  /\ state' = out.state
             /\ clock' = clock + 1
             /\ recorded' = Append(recorded,
                                   DeploymentRecord(clock + 1, in[1],
                                      [k \in {"s3_bucket"} |-> "created"],
                                      in[2]))
             /\ lastOp' = [op |-> "save_deployment", config |-> in[1],
                           success |-> in[2], raised |-> out.raised,
                           result |-> out.result]
    /\ UNCHANGED <<file, deployVars, retryVars, toolVars>>

FileDetectDrift ==
    /\ \E cfg \in {BaseConfig, FullConfig} :
          lastOp' = [op |-> "detect_drift", config |-> cfg,
                     raised |-> DriftOutcome(state, cfg).raised,
                     result |-> DriftOutcome(state, cfg).result]
    /\ UNCHANGED <<state, clock, recorded, file, deployVars, retryVars, toolVars>>

FileHistory ==
    /\ \E limit \in {0, 1, 2, DefaultHistoryLimit} :
          lastOp' = [op |-> "get_deployment_history", limit |-> limit,
                     raised |-> HistoryOutcome(state, limit).raised,
                     result |-> HistoryOutcome(state, limit).result]
    /\ UNCHANGED <<state, clock, recorded, file, deployVars, retryVars, toolVars>>

FileLastSuccessful ==
    /\ lastOp' = [op |-> "get_last_successful_deployment",
                  raised |-> LastSuccessfulOutcome(state).raised,
                  result |-> LastSuccessfulOutcome(state).result]
    /\ UNCHANGED <<state, clock, recorded, file, deployVars, retryVars, toolVars>>

FileNext == FileSave \/ FileDetectDrift \/ FileHistory \/ FileLastSuccessful

SpecFile == FileInit /\ [][FileNext]_vars

DeployStart == DeployInit /\ StoreIdle /\ retry = RetryIdle /\ ToolsIdle

\* retry_on_throttle alone
RetryInit ==
    /\ retry = RetryIdle /\ ToolsIdle
    /\ StoreIdle
    /\ config = BaseConfig
    /\ DeployIdle

SpecRetry == RetryInit /\ [][RetryNext]_vars

\* the wrapper runs on one thread: a step that can be taken is taken, the
\* wrapped function and time.sleep returning each time they are called
SpecRetryLive == SpecRetry /\ WF_vars(RetryNext)

SpecDeploy == DeployStart /\ [][DeployNext]_vars

(***************************************************************************)
(* cli.py: one run of main                                                 *)
(***************************************************************************)
\* the command lines: --region is required, the flags are free
CliArgs ==
    [region : {"us-east-1", "eu-west-1"}, dry_run : BOOLEAN,
     estimate_cost : BOOLEAN, show_history : BOOLEAN, show_drift : BOOLEAN,
     state_file : {None, "state.json"}, access_key : {None, "AKIA"}]

\* DataLakeConfig.from_toml(args.config): a configuration, or the exception
\* of a file without a valid [datalake] table
TomlInputs ==
    { [raised |-> "none", config |-> BaseConfig],
      [raised |-> "none",
       config |-> [BaseConfig EXCEPT !.bucket_name = "other-lake"]],
      [raised |-> "ValueError", config |-> BaseConfig] }

\* a variant of main without the drift report
ReportOfNoDrift(args) ==
    IF args.estimate_cost THEN "cost"
    ELSE IF args.show_history THEN "history"
    ELSE "none"

\* the report main stops at: the three tests are made in this order
ReportOf(args) ==
    IF args.estimate_cost THEN "cost"
    ELSE IF args.show_history THEN "history"
    ELSE IF args.show_drift THEN "drift"
    ELSE "none"

\* the keyword parameters of DataLakeDeployer.__init__ besides the
\* positional session_factory
InitKeywords == {"logger"}

\* whether a call of the constructor with these keywords binds
InitAccepts(keywords) == keywords \subseteq InitKeywords

\* deploy(config) from stage i on, as one computation without outside faults
RECURSIVE DeployFrom(_, _, _)
DeployFrom(i, cfg, acc) ==
    IF i > Len(Stages) \/ acc.err # "none" THEN acc
    ELSE IF ~Gate(Stages[i], cfg) THEN DeployFrom(i + 1, cfg, acc)
    ELSE Bind(Ensure(Stages[i], Ctx(acc.remote, 0, "AccessDenied"), cfg),
              LAMBDA r :
              DeployFrom(i + 1, cfg,
                  [remote |-> r.remote,
                   calls |-> acc.calls \o Marked(Stages[i], r.calls),
                   summary |-> IF r.err = "none"
                               THEN Append(acc.summary, <<Stages[i], r.ret>>)
                               ELSE acc.summary,
                   err |-> r.err]))

\* how a run of main ends, and what it leaves in the remote environment
CliEnd(how, exit_code, error, manager, report, deployer, deploys, lines,
       rem, cs) ==
    [pc |-> how, exit_code |-> exit_code, error |-> error,
     manager |-> manager, report |-> report, deployer |-> deployer,
     deploys |-> deploys, lines |-> lines, remote |-> rem, calls |-> cs]

\* the statements of main after the reports: the session factory, the
\* deployer, deploy, one line for each item of the summary, return 0
DeployMode(args, cfg, manager, rem) ==
    IF ~InitAccepts({"state_manager"})
    THEN CliEnd("raised", -1, "TypeError", manager, "none", FALSE, 0, <<>>,
                rem, <<>>)
    ELSE Bind(DeployFrom(1, cfg,
                  [remote |-> rem, calls |-> <<>>, summary |-> <<>>,
                   err |-> "none"]),
              LAMBDA d :
              IF d.err # "none"
              THEN CliEnd("raised", -1, d.err, manager, "none", TRUE, 1,
                          <<>>, d.remote, d.calls)
              ELSE CliEnd("returned", 0, "none", manager, "none", TRUE, 1,
                          d.summary, d.remote, d.calls))

\* a report of the state store: main returns 0 after it, or the exception
\* of the store leaves main
StoreReport(report, outcome, rem) ==
    IF outcome.raised # "none"
    THEN CliEnd("raised", -1, outcome.raised, TRUE, report, FALSE, 0, <<>>,
                rem, <<>>)
    ELSE CliEnd("returned", 0, "none", TRUE, report, FALSE, 0, <<>>,
                rem, <<>>)

\* main(argv) over the configuration file, the state file and the remote
\* environment it finds
main(args, toml, f, rem) ==
    IF toml.raised # "none"
    THEN CliEnd("raised", -1, toml.raised, FALSE, "none", FALSE, 0, <<>>,
                rem, <<>>)
    ELSE Bind([toml.config EXCEPT !.region = args.region,
                                  !.dry_run = args.dry_run],
         LAMBDA cfg :
         Bind(StrTruthy(args.state_file)
                \/ ~(args.estimate_cost \/ args.show_history),
         LAMBDA manager :
         CASE ReportOf(args) = "cost" ->
                CliEnd("returned", 0, "none", manager, "cost", FALSE, 0,
                       <<>>, rem, <<>>)
           [] ReportOf(args) = "history" ->
                StoreReport("history",
                            HistoryOutcome(_load_state(f), DefaultHistoryLimit), rem)
           [] ReportOf(args) = "drift" ->
                StoreReport("drift", DriftOutcome(_load_state(f), cfg), rem)
           [] OTHER -> DeployMode(args, cfg, manager, rem)))

\* one run of the command line
CliMain ==
    /\ cli.pc = "idle"
    /\ \E args \in CliArgs, toml \in TomlInputs :
          Bind(main(args, toml, file, remote),
               LAMBDA end :
               /\ cli' = [pc |-> end.pc, args |-> args,
                          exit_code |-> end.exit_code, error |-> end.error,
                          manager |-> end.manager, report |-> end.report,
                          deployer |-> end.deployer, deploys |-> end.deploys,
                          lines |-> end.lines]
               /\ remote' = end.remote
               /\ calls' = end.calls)
    /\ UNCHANGED <<config, pc, summary, returned, run, before, prev, faults>>
    /\ UNCHANGED <<storeVars, retryVars, disk, stores, made>>

CliNext == CliMain

\* the command line over any state file and an empty remote environment
CliInit ==
    /\ state = _empty_state
    /\ clock = 0
    /\ recorded = <<>>
    /\ lastOp = NoOp
    /\ file \in FileContents
    /\ config = BaseConfig
    /\ DeployIdle
    /\ retry = RetryIdle /\ ToolsIdle

SpecCli == CliInit /\ [][CliNext]_vars

\* the document an earlier run left in the file
EarlierDocument ==
    save_deployment(_empty_state, 0, BaseConfig,
                    [k \in {"s3_bucket"} |-> "created"], TRUE)

\* the processes that share one state file; the file is absent or holds the
\* document of an earlier run
PersistInit ==
    /\ StoreIdle
    /\ config = BaseConfig
    /\ DeployIdle
    /\ retry = RetryIdle
    /\ cli = CliIdle
    /\ made = NothingMade
    /\ disk \in {NoFile,
                 [exists |-> TRUE, content |-> TextOf(EarlierDocument)]}
    /\ stores = [i \in Instances |-> NoStore]

SpecPersist == PersistInit /\ [][PersistNext]_vars

\* configuration objects alone
ConfigInit ==
    /\ StoreIdle
    /\ config = BaseConfig
    /\ DeployIdle
    /\ retry = RetryIdle /\ ToolsIdle

SpecConfig == ConfigInit /\ [][ConfigNext]_vars

(***************************************************************************)
(* Properties of the state store                                           *)
(***************************************************************************)
Min(a, b) == IF a < b THEN a ELSE b

EntriesOf(report, label) == SelectSeq(report, LAMBDA e : e[1] = label)

SavedLast == lastOp.op = "save_deployment"

\* C5: a save_deployment with a dry-run configuration and success=true
\* appends one record to the history (the older records keep their order)
\* and leaves current_config and the resources map as they were, so that
\* detect_drift answers every configuration as it did before the call.
C5_DryRunIsolation ==
    [][ (clock' = clock + 1 /\ lastOp'.config.dry_run /\ lastOp'.success)
        => /\ state'.current_config = state.current_config
           /\ state'.resources = state.resources
           /\ Len(state'.deployments)
                = Min(Len(state.deployments) + 1, HistoryLimit)
           /\ state'.deployments[Len(state'.deployments)] = recorded'[clock']
           /\ \A i \in 1 .. Len(state'.deployments) - 1 :
                 state'.deployments[i]
                   = state.deployments[Len(state.deployments)
                                       - (Len(state'.deployments) - 1) + i]
           /\ \A cfg \in StoreConfigs :
                 detect_drift(state', cfg) = detect_drift(state, cfg)
      ]_vars

\* a successful dry-run recording made over an existing snapshot whose
\* outcome map differs from the stored one
C5_Witness ==
    /\ SavedLast /\ lastOp.config.dry_run /\ lastOp.success
    /\ Truthy(state.current_config)
    /\ state.resources # lastOp.resources
    /\ state.current_config.region # lastOp.config.region
    /\ Len(state.deployments) = 2

\* C6: after n recordings from the empty state the history holds the last
\* min(n, 10) records recorded, in arrival order; after 11 recordings its
\* first entry is the 2nd record recorded.
C6_HistoryTruncation ==
    /\ Len(state.deployments) = Min(clock, HistoryLimit)
    /\ \A i \in 1 .. Len(state.deployments) :
          state.deployments[i] = recorded[clock - Len(state.deployments) + i]
    /\ clock = HistoryLimit + 1 => state.deployments[1] = recorded[2]

C6_Witness ==
    /\ clock = HistoryLimit + 1
    /\ Len(recorded) = HistoryLimit + 1
    /\ Len(state.deployments) = HistoryLimit
    /\ state.deployments[1].timestamp = 2

\* C7: detect_drift(C) right after save_deployment(C, outcomes, TRUE) with a
\* non-dry-run C returns the empty report.
C7_NoDriftAfterSave ==
    (SavedLast /\ lastOp.success /\ ~lastOp.config.dry_run)
        => detect_drift(state, lastOp.config) = <<>>

\* a second successful recording, of a configuration with tags and unlike
\* the one recorded before it
C7_Witness ==
    /\ SavedLast /\ lastOp.success /\ ~lastOp.config.dry_run
    /\ lastOp.config.tags = ("Env" :> "prod") @@ ("Owner" :> "dev")
    /\ Len(state.deployments) = 2
    /\ state.deployments[1].success /\ ~state.deployments[1].dry_run
    /\ state.current_config = SnapshotOf(lastOp.config)

\* C8: with a snapshot in place, the report detect_drift returns for any
\* new tag set has an "added" entry naming the keys only in the new set, a
\* "removed" entry naming the keys only in the snapshot and a "changed"
\* entry naming the common keys whose values differ; each entry occurs once
\* when its key set is not empty and not at all when it is.
C8_TagAttribution ==
    (lastOp.op = "detect_drift" /\ Truthy(state.current_config)) =>
        LET old == state.current_config.tags
            new == lastOp.config.tags
            added == {k \in TagKeys : k \in DOMAIN new /\ k \notin DOMAIN old}
            removed == {k \in TagKeys : k \in DOMAIN old /\ k \notin DOMAIN new}
            changed == {k \in TagKeys : /\ k \in DOMAIN old
                                        /\ k \in DOMAIN new
                                        /\ old[k] # new[k]}
            Exactly(label, keys) ==
                EntriesOf(lastOp.report, label)
                  = IF keys = {} THEN <<>> ELSE << <<label, keys>> >>
        IN  /\ Exactly("Tags added", added)
            /\ Exactly("Tags removed", removed)
            /\ Exactly("Tags changed", changed)

\* the snapshot holds {Env: dev} and the report was asked for
\* {Env: prod, Owner: dev}: Owner is added, Env changed, nothing removed
C8_Witness ==
    /\ lastOp.op = "detect_drift"
    /\ Truthy(state.current_config)
    /\ state.current_config.tags = ("Env" :> "dev")
    /\ lastOp.config.tags = ("Env" :> "prod") @@ ("Owner" :> "dev")
    /\ lastOp.report = << <<"Tags added", {"Owner"}>>,
                          <<"Tags changed", {"Env"}>> >>

\* C18: a save_deployment with success=false appends its record to the
\* history (of which the last 10 are kept) and leaves current_config and the
\* resources map as they were; a save_deployment changes current_config only
\* when success is true and the configuration is not a dry run, and it then
\* stores the snapshot of that configuration and its outcome map.
C18_FailureKeepsSnapshot ==
    [][ clock' = clock + 1 =>
          /\ ~lastOp'.success =>
                /\ state'.current_config = state.current_config
                /\ state'.resources = state.resources
                /\ Len(state'.deployments)
                     = Min(Len(state.deployments) + 1, HistoryLimit)
                /\ state'.deployments[Len(state'.deployments)]
                     = recorded'[clock']
                /\ ~state'.deployments[Len(state'.deployments)].success
          /\ (\/ state'.current_config # state.current_config
              \/ state'.resources # state.resources)
                => (lastOp'.success /\ ~lastOp'.config.dry_run)
          /\ (lastOp'.success /\ ~lastOp'.config.dry_run)
                => /\ state'.current_config = SnapshotOf(lastOp'.config)
                   /\ state'.resources = lastOp'.resources
      ]_vars

\* a failed recording of a live run, made over the snapshot of another
\* configuration and another outcome map
C18_Witness ==
    /\ SavedLast /\ ~lastOp.success /\ ~lastOp.config.dry_run
    /\ Truthy(state.current_config)
    /\ state.current_config # SnapshotOf(lastOp.config)
    /\ state.resources # lastOp.resources
    /\ Len(state.deployments) = 2
    /\ state.deployments[1].success /\ ~state.deployments[2].success

\* a record of a successful run that was not a dry run
CountsAsDeployed(record) == record.success /\ ~record.dry_run

\* C19: the report of detect_drift is the single entry 'No previous
\* deployment found' exactly when no successful non-dry-run deployment was
\* recorded since the state was empty or last cleared; when one was, no
\* entry of the report is that sentinel.
C19_SentinelIffNothingDeployed ==
    lastOp.op = "detect_drift" =>
        LET deployed == \E i \in 1 .. Len(recorded) :
                            CountsAsDeployed(recorded[i])
        IN  /\ (lastOp.report = NoPreviousDeployment) <=> ~deployed
            /\ deployed =>
                  \A i \in 1 .. Len(lastOp.report) :
                      lastOp.report[i] # <<"No previous deployment found">>

\* a report asked for after a recording, a clearing and then a failed
\* recording
C19_Witness ==
    /\ lastOp.op = "detect_drift"
    /\ lastOp.report = NoPreviousDeployment
    /\ clock = 2
    /\ Len(recorded) = 1 /\ ~recorded[1].success
    /\ Len(state.deployments) = 1

\* the store ran one of its four operations over the loaded document
FileOpDone == "raised" \in DOMAIN lastOp

\* C20 as the specification states it: whatever the state file holds, the
\* four operations of a store constructed over it never raise, and the
\* store holds what a store started from the empty state would hold.
C20_AnyFileTolerated ==
    FileOpDone =>
        /\ lastOp.raised = "none"
        /\ (clock = 0 /\ lastOp.op = "detect_drift")
              => lastOp.result = detect_drift(_empty_state, lastOp.config)
        /\ (clock = 0 /\ lastOp.op \in {"get_deployment_history",
                                         "get_last_successful_deployment"})
              => lastOp.result = <<>>
        /\ (clock = 1 /\ lastOp.op = "save_deployment")
              => state.deployments = recorded

(***************************************************************************)
(* Properties of deploy                                                    *)
(***************************************************************************)
Keys(map) == { map[i][1] : i \in 1 .. Len(map) }

LabelOf(map, key) == map[CHOOSE i \in 1 .. Len(map) : map[i][1] = key][2]


\* deploy has returned for the second time in a row, the configuration
\* unchanged (nothing but deploy acts on the remote environment)
SecondSuccess == pc = "returned" /\ run >= 2 /\ prev = "returned"

RemoteView(rem) == [rem EXCEPT !.stream.version = 0]

\* C2 as the specification states it: the second of two successful runs in
\* succession leaves the remote environment as it found it.
C2_ZeroNetChange ==
    SecondSuccess => RemoteView(remote) = RemoteView(before)

\* the caller gave region, bucket name and database name and nothing else
OnlyRequired(cfg) ==
    cfg = [BaseConfig EXCEPT !.region = cfg.region,
                             !.bucket_name = cfg.bucket_name,
                             !.glue_database = cfg.glue_database]

C4_PartialMapReachesCaller ==
    pc = "raised" =>
        /\ returned.error # "none"
        /\ returned.map = summary

\* the order of the stages as the specification lists it
ClaimedOrder ==
    <<"vpc_endpoints", "s3_bucket", "glue_database", "processing_role",
      "firehose_stream", "glue_crawler", "athena_workgroup",
      "transactional_assets", "lake_formation">>

ClaimedPosition(stage) ==
    CHOOSE i \in 1 .. Len(ClaimedOrder) : ClaimedOrder[i] = stage

\* C9: in every run the stages execute in the order network endpoints,
\* bucket, database, processing role, stream, crawler, workgroup, table
\* asset, access grants: the remote calls of the run are grouped by stage in
\* that order, the outcome map gets its entries in that order, and every
\* call issued so far belongs to a stage before the one about to run.
C9_FixedStageOrder ==
    /\ \A i, j \in 1 .. Len(calls) :
         i < j => ClaimedPosition(calls[i].stage)
                    <= ClaimedPosition(calls[j].stage)
    /\ \A i, j \in 1 .. Len(summary) :
         i < j => ClaimedPosition(summary[i][1])
                    < ClaimedPosition(summary[j][1])
    /\ pc \in { ClaimedOrder[k] : k \in 1 .. 9 }
         => /\ \A i \in 1 .. Len(calls) :
                 ClaimedPosition(calls[i].stage) < ClaimedPosition(pc)
            /\ \A i \in 1 .. Len(summary) :
                 ClaimedPosition(summary[i][1]) < ClaimedPosition(pc)

\* a run of the configuration that has every section has returned, each of
\* the nine stages having issued remote calls
C9_Witness ==
    /\ pc = "returned"
    /\ config = FullConfig
    /\ { calls[i].stage : i \in 1 .. Len(calls) }
         = { ClaimedOrder[k] : k \in 1 .. 9 }
    /\ [i \in 1 .. Len(returned.map) |-> returned.map[i][1]] = ClaimedOrder

\* the optional stages and, for each, whether its section (or, for a stage
\* configured by a field, that field) is given
OptionalStages ==
    {"vpc_endpoints", "processing_role", "firehose_stream", "glue_crawler",
     "athena_workgroup", "transactional_assets", "lake_formation"}

SectionPresent(stage, cfg) ==
    CASE stage = "vpc_endpoints" -> cfg.vpc_endpoints.present
      [] stage = "processing_role" -> cfg.processing_role.present
      [] stage = "firehose_stream" -> cfg.firehose.present
      [] stage = "glue_crawler" -> cfg.crawler_name \notin {"None", ""}
      [] stage = "athena_workgroup" -> cfg.athena_workgroup \notin {"None", ""}
      [] stage = "transactional_assets" -> cfg.enable_transactional_tables
      [] stage = "lake_formation" -> cfg.lake_formation.present

StageCalls(stage) == { i \in 1 .. Len(calls) : calls[i].stage = stage }

\* C10 as the specification states it: an optional stage's key is in the
\* returned map if and only if its section is present.
C10_SectionPresenceOnly ==
    pc = "returned" =>
        \A stage \in OptionalStages :
            stage \in Keys(returned.map) <=> SectionPresent(stage, config)

\* C10, amended: an optional stage's key is in the returned map if and only
\* if its section is present and, for the access grants, the section's
\* enable_lake_formation flag is true as well; a stage for which this does
\* not hold issues no remote call and stores no entry.
C10_SectionAndEnableFlag ==
    \A stage \in OptionalStages :
        LET open == /\ SectionPresent(stage, config)
                    /\ stage = "lake_formation"
                         => config.lake_formation.enable_lake_formation
        IN  /\ pc = "returned" => (stage \in Keys(returned.map) <=> open)
            /\ ~open => /\ StageCalls(stage) = {}
                        /\ stage \notin Keys(summary)

\* a run has returned for a configuration whose access-grant section is
\* present with the flag false: no key and no call for the stage, while the
\* other stages did their calls
C10_Witness ==
    /\ pc = "returned"
    /\ config.lake_formation.present
    /\ ~config.lake_formation.enable_lake_formation
    /\ "lake_formation" \notin Keys(returned.map)
    /\ StageCalls("lake_formation") = {}
    /\ StageCalls("s3_bucket") # {}

\* the crawler is named and no role reference is given for it
CrawlerWithoutRole(cfg) ==
    /\ cfg.crawler_name \notin {"None", ""}
    /\ cfg.crawler_role_arn \in {"None", ""}

\* C11 as the specification states it: when a crawler name is configured
\* without a role reference, deploy raises the configuration error and no
\* remote call has been issued in that run before the error is raised.
C11_NoCallBeforeConfigError ==
    (pc = "raised" /\ returned.error = "ValueError"
       /\ CrawlerWithoutRole(config))
        => calls = <<>>

\* the operations that change the remote environment
IsMutatingCall(call) ==
    \E verb \in {"create", "put", "update", "delete", "attach", "tag",
                 "untag", "register", "grant", "modify"} :
        \E service \in {"s3", "glue", "athena", "iam", "firehose", "ec2",
                        "lakeformation"} :
            StartsWith(call.op, service \o "." \o verb)

\* C12 as the specification states it: with the dry_run flag true, deploy
\* issues no mutating remote call and the remote environment after the run
\* equals the remote environment before it.
C12_DryRunChangesNothing ==
    config.dry_run =>
        /\ \A i \in 1 .. Len(calls) : ~IsMutatingCall(calls[i])
        /\ remote = before

(***************************************************************************)
(* Properties of retry_on_throttle, under SpecRetry                        *)
(***************************************************************************)
\* every invocation so far failed with a throttling error
AllThrottled ==
    /\ retry.invoked # <<>>
    /\ \A i \in 1 .. Len(retry.invoked) : retry.invoked[i] \in ThrottlingCodes

\* C13 as the specification states it: for every max_retries >= 1, when the
\* wrapped function fails with a throttling error on every attempt, the
\* caller gets a DeploymentError whose cause is the last throttling error,
\* never the raw remote error.
C13_ExhaustionRaisesDeploymentError ==
    (retry.pc = "done" /\ retry.max_retries >= 1 /\ AllThrottled)
        => /\ retry.result.kind = "raise"
           /\ retry.result.value = "DeploymentError"
           /\ retry.result.cause = retry.invoked[Len(retry.invoked)]

LastOutcome == retry.invoked[Len(retry.invoked)]

\* what the caller obtains when an invocation's outcome is passed on as is
PassedOn(o) == IF o = "ok" THEN Returns("ok") ELSE Reraises(o)

C14_Safety ==
    /\ retry.max_retries >= 1 => Len(retry.invoked) <= retry.max_retries
    /\ retry.max_retries <= 0 => Len(retry.invoked) <= 1
    /\ \A i \in 1 .. Len(retry.invoked) - 1 :
           retry.invoked[i] \in ThrottlingCodes
    /\ retry.pc = "done" =>
           /\ Len(retry.invoked) >= 1
           /\ retry.result = PassedOn(LastOutcome)

C15_EscapingErrorsAreWrapped ==
    (pc = "raised" /\ IsClientError(returned.error))
        => /\ returned.class = "DeploymentError"
           /\ returned.cause = returned.error

\* the two paths in which an error may be caught and execution continued
IsTaggingCall(call) ==
    call.op \in {"glue.tag_resource", "athena.tag_resource", "iam.tag_role",
                 "iam.untag_role", "iam.list_role_tags",
                 "s3.put_bucket_tagging"}
IsGrantCall(call) == call.op = "lakeformation.grant_permissions"

\* a not-found answer to a lookup, consumed to choose create over update
NotFoundCodes ==
    {"NoSuchBucket", "404", "EntityNotFoundException", "NoSuchEntity",
     "ResourceNotFoundException", "InvalidVpcEndpointId.NotFound",
     "InvalidRequestException: WorkGroup is not found",
     "InvalidRequestException: WorkGroup NOT FOUND"}

\* C16 as the specification states it: when deploy returns normally with a
\* label for a resource, every remote call made for that resource that is
\* neither a tagging call nor a grant succeeded.
C16_LabelMeansCallsSucceeded ==
    pc = "returned" =>
        \A i \in 1 .. Len(calls) :
            (calls[i].stage \in Keys(returned.map)
                /\ ~IsTaggingCall(calls[i]) /\ ~IsGrantCall(calls[i]))
            => calls[i].err \in {"none"} \cup NotFoundCodes

\* C17 as the specification states it: no failure of one grant aborts the
\* deploy, and when the access-grant stage has run, every grant of the list
\* was attempted, in list order.
C17_GrantFailureNeverAborts ==
    /\ ~(/\ pc = "raised"
         /\ returned.error = "ValueError"
         /\ \E i \in 1 .. Len(calls) : calls[i].stage = "lake_formation")
    /\ (pc = "returned" /\ "lake_formation" \in Keys(returned.map)) =>
          LET grants == SelectSeq(calls, IsGrantCall)
              perms == config.lake_formation.permissions
          IN  /\ Len(grants) = Len(perms)
              /\ \A k \in 1 .. Len(perms) :
                    /\ grants[k].args.principal = perms[k].principal
                    /\ grants[k].args.resource
                           = _build_lf_resource(perms[k], config)

(***************************************************************************)
(* The outcome map of deploy, under SpecDeploy                             *)
(***************************************************************************)
PlainLabels == {"created", "updated", "skipped"}

CountLabels ==
    { verb \o " (" \o ToString(n) \o " endpoints)" :
        verb \in {"created", "updated"}, n \in 1 .. 3 }

BucketCall(op) ==
    CHOOSE i \in 1 .. Len(calls) :
        calls[i].stage = "s3_bucket" /\ calls[i].op = op

BucketCalled(op) ==
    \E i \in 1 .. Len(calls) : calls[i].stage = "s3_bucket" /\ calls[i].op = op

\* C30: once the bucket stage of a run has ended with a label, whether it
\* created the bucket or found it, the run has issued a successful
\* put_public_access_block with the four flags true and a successful
\* put_bucket_versioning with status Enabled, and the bucket has public
\* access blocked and versioning Enabled.
C30_BucketAlwaysHardened ==
    "s3_bucket" \in Keys(summary) =>
        /\ BucketCalled("s3.put_public_access_block")
        /\ calls[BucketCall("s3.put_public_access_block")].err = "none"
        /\ \A flag \in {"BlockPublicAcls", "IgnorePublicAcls",
                        "BlockPublicPolicy", "RestrictPublicBuckets"} :
              calls[BucketCall("s3.put_public_access_block")].args[flag]
        /\ BucketCalled("s3.put_bucket_versioning")
        /\ calls[BucketCall("s3.put_bucket_versioning")].err = "none"
        /\ calls[BucketCall("s3.put_bucket_versioning")].args.Status
              = "Enabled"
        /\ remote.bucket.exists
        /\ remote.bucket.public_access_block
        /\ remote.bucket.versioning = "Enabled"

\* the second run found the bucket and hardened it again
C30_Witness ==
    /\ run = 2
    /\ "s3_bucket" \in Keys(summary)
    /\ LabelOf(summary, "s3_bucket") = "updated"
    /\ ~BucketCalled("s3.create_bucket")
    /\ BucketCalled("s3.put_public_access_block")
    /\ BucketCalled("s3.put_bucket_versioning")

\* C28: in every run, the label of the bucket is `created` exactly when the
\* bucket did not exist when the run began and `updated` otherwise, and the
\* same holds for the database; hence the first successful run over an
\* empty environment reports both as created and a successful run that
\* follows a successful run reports both as updated.
C28_CreatedIffAbsent ==
    /\ "s3_bucket" \in Keys(summary) =>
          LabelOf(summary, "s3_bucket")
            = IF before.bucket.exists THEN "updated" ELSE "created"
    /\ "glue_database" \in Keys(summary) =>
          LabelOf(summary, "glue_database")
            = IF before.database.exists THEN "updated" ELSE "created"
    /\ (pc = "returned" /\ before = EmptyRemote) =>
          /\ LabelOf(returned.map, "s3_bucket") = "created"
          /\ LabelOf(returned.map, "glue_database") = "created"
    /\ SecondSuccess =>
          /\ LabelOf(returned.map, "s3_bucket") = "updated"
          /\ LabelOf(returned.map, "glue_database") = "updated"

\* a run that found the bucket of a run that had failed at the database:
\* the bucket is updated, the database created
C28_Witness ==
    /\ pc = "returned"
    /\ run = 2
    /\ prev = "raised"
    /\ before.bucket.exists /\ ~before.database.exists
    /\ LabelOf(returned.map, "s3_bucket") = "updated"
    /\ LabelOf(returned.map, "glue_database") = "created"

\* the stage that raised: the first stage whose gate is open and that has no
\* entry among the stages that completed
RaisingStage ==
    Stages[CHOOSE i \in 1 .. Len(Stages) :
              /\ Gate(Stages[i], config) /\ Stages[i] \notin Keys(summary)
              /\ \A j \in 1 .. i - 1 :
                    Gate(Stages[j], config) => Stages[j] \in Keys(summary)]

\* what the stages that completed have left in the remote environment
CompletedEffectsInPlace ==
    /\ "s3_bucket" \in Keys(summary) =>
          /\ remote.bucket.exists
          /\ remote.bucket.public_access_block
          /\ remote.bucket.versioning = "Enabled"
    /\ "glue_database" \in Keys(summary) => remote.database.exists
    /\ "processing_role" \in Keys(summary) =>
          remote.roles[config.processing_role.name].exists
    /\ "firehose_stream" \in Keys(summary) => remote.stream.exists
    /\ "glue_crawler" \in Keys(summary) => remote.crawler.exists
    /\ "athena_workgroup" \in Keys(summary) => remote.workgroup.exists

\* C29: once a stage of deploy has raised, every remote call of the run
\* belongs to a stage that completed or to the stage that raised, the
\* resources of the stages that completed are in place, and until deploy is
\* invoked again no further remote call is issued and the remote
\* environment does not change.
C29_AbortWithoutRollback ==
    /\ [](returned.kind = "exception" =>
            /\ \A i \in 1 .. Len(calls) :
                  calls[i].stage \in Keys(summary) \cup {RaisingStage}
            /\ CompletedEffectsInPlace)
    /\ [][returned.kind = "exception" =>
            \/ calls' = calls /\ remote' = remote
            \/ run' = run + 1]_vars

\* the crawler stage raised after five stages had completed
C29_Witness ==
    /\ pc = "raised"
    /\ Keys(summary) = {"vpc_endpoints", "s3_bucket", "glue_database",
                        "processing_role", "firehose_stream"}
    /\ RaisingStage = "glue_crawler"
    /\ remote.stream.exists
    /\ \E i \in 1 .. Len(calls) : calls[i].stage = "glue_crawler"

(***************************************************************************)
(* Properties of the command line, under SpecCli                           *)
(***************************************************************************)
\* main has run to its end with these arguments, the configuration loaded
CliRan == cli.pc # "idle" /\ cli.error # "ValueError"

InReportMode(args) ==
    args.estimate_cost \/ args.show_history \/ args.show_drift

\* C24 (as stated): with none of the report flags, main constructs the
\* deployer, runs deploy exactly once, emits one outcome line for each key
\* of the outcome map and returns exit code 0.
C24_DeployModeDeploysOnce ==
    CliRan /\ ~InReportMode(cli.args) =>
        /\ cli.deployer
        /\ cli.deploys = 1
        /\ cli.pc = "returned" => cli.exit_code = 0 /\ Len(cli.lines) >= 2

SatisfiesValidators(f) ==
    /\ validate_region(f.region)
    /\ validate_bucket_name(f.bucket_name)
    /\ validate_database_name(f.glue_database)
    /\ validate_table_format(f.table_format)
    /\ TruthyText(f.kms_key_id) => validate_arn(f.kms_key_id, "key")
    /\ TruthyText(f.crawler_role_arn) => validate_arn(f.crawler_role_arn, "role")
    /\ validate_tags(f.tags)

\* C26 (as stated): every configuration that reaches deploy satisfies the
\* rules of the validators, whichever way it was produced, the region
\* override of the command line included.
C26_DeployedConfigIsValid ==
    made.pc = "deploying" => SatisfiesValidators(made.config)

\* an ARN of six colon-separated fields, arn first, with a partition, a
\* service and a resource, the region and the account possibly empty
WellFormedArn(arn) ==
    /\ Cardinality(PositionsOf(arn, ":")) >= 5
    /\ SubSeq(arn, 1, NthPosition(arn, ":", 1) - 1) = "arn"
    /\ NthPosition(arn, ":", 2) > NthPosition(arn, ":", 1) + 1
    /\ NthPosition(arn, ":", 3) > NthPosition(arn, ":", 2) + 1
    /\ Len(arn) > NthPosition(arn, ":", 5)

\* C27 (as stated): without a resource type, validate_arn accepts every
\* well-formed ARN, those with an empty region and account included, and
\* rejects what is not an ARN.
C27_AcceptsEveryWellFormedArn ==
    made.pc = "checked" /\ made.resource_type = None =>
        (made.accepted <=> WellFormedArn(made.arn))

(***************************************************************************)
(* Properties of the shared state file, under SpecPersist                  *)
(***************************************************************************)
\* C21 (as stated): at every instant the state file holds one complete
\* document, the previous one or the new one, never an empty or partly
\* written text.
C21_FileAlwaysComplete ==
    disk.exists => IsWholeText(disk.content)

\* the record a store added with its latest save_deployment
OwnRecord(i) ==
    stores[i].state.deployments[Len(stores[i].state.deployments)]

InDocument(record, doc) ==
    \E k \in 1 .. Len(doc.deployments) : doc.deployments[k] = record

\* both stores loaded the same document, each recorded one deployment, and
\* both writes have ended
BothPersisted ==
    /\ \A i \in Instances :
          stores[i].pc = "ready" /\ stores[i].saves = 1
    /\ stores["A"].loaded = stores["B"].loaded

LaterWriter == IF stores["A"].ended > stores["B"].ended THEN "A" ELSE "B"

EarlierWriter == IF LaterWriter = "A" THEN "B" ELSE "A"

\* the later writer opened the file after the earlier writer's write ended
WritesApart == stores[EarlierWriter].ended < stores[LaterWriter].began

NewCalls == SubSeq(calls', Len(calls) + 1, Len(calls'))

NewCallsOf(op) == { k \in 1 .. Len(NewCalls) : NewCalls[k].op = op }

\* the step under way is the given stage ending with its label stored
StageSucceeds(stage) ==
    /\ pc = stage
    /\ Gate(stage, config)
    /\ Len(summary') = Len(summary) + 1

PoliciesOf(op) == { NewCalls[k].args.policy : k \in NewCallsOf(op) }

\* C31: after a successful role reconcile, of a role it created or found,
\* the inline policy names on the remote role are those of the role
\* configuration: every configured policy is put and every other inline
\* policy found on the role is deleted.
C31_InlinePoliciesReplaced ==
    [][/\ StageSucceeds("processing_role") =>
            LET role == config.processing_role IN
            /\ DOMAIN remote'.roles[role.name].inline
                 = DOMAIN role.inline_policies
            /\ PoliciesOf("iam.put_role_policy") = DOMAIN role.inline_policies
            /\ PoliciesOf("iam.delete_role_policy")
                 = DOMAIN remote.roles[role.name].inline
                     \ DOMAIN role.inline_policies
       /\ StageSucceeds("firehose_stream") =>
            LET role == FirehoseRoleConfig(config) IN
            /\ DOMAIN remote'.roles[role.name].inline
                 = DOMAIN role.inline_policies
            /\ PoliciesOf("iam.delete_role_policy")
                 = DOMAIN remote.roles[role.name].inline
                     \ DOMAIN role.inline_policies]_vars

\* the processing role was found with an inline policy that is not in its
\* configuration; the policy was deleted and the configured one is there
C31_Witness ==
    /\ run = 2
    /\ config.processing_role.present
    /\ "processing_role" \in Keys(summary)
    /\ \E i \in StageCalls("processing_role") :
          /\ calls[i].op = "iam.delete_role_policy"
          /\ calls[i].args.policy
               \notin DOMAIN config.processing_role.inline_policies
    /\ pc = "firehose_stream"
    /\ DOMAIN remote.roles[config.processing_role.name].inline
         = DOMAIN config.processing_role.inline_policies

\* C32: a role reconcile never detaches a managed policy: the attached set
\* afterwards is the attached set before united with the configured
\* references, and the attach call is issued only for the configured
\* references that were not attached.
C32_AttachmentIsAdditive ==
    [][/\ \A name \in RoleNames :
             remote.roles[name].attached \subseteq remote'.roles[name].attached
       /\ NewCallsOf("iam.detach_role_policy") = {}
       /\ StageSucceeds("processing_role") =>
            LET role == config.processing_role IN
            /\ remote'.roles[role.name].attached
                 = remote.roles[role.name].attached
                     \cup role.managed_policy_arns
            /\ PoliciesOf("iam.attach_role_policy")
                 = role.managed_policy_arns
                     \ remote.roles[role.name].attached]_vars

\* the second run found the configured reference attached and issued no
\* attach call; the reference is still attached
C32_Witness ==
    /\ run = 2
    /\ config.processing_role.present
    /\ pc = "firehose_stream"
    /\ "processing_role" \in Keys(summary)
    /\ \A i \in StageCalls("processing_role") :
          calls[i].op # "iam.attach_role_policy"
    /\ config.processing_role.managed_policy_arns # {}
    /\ config.processing_role.managed_policy_arns
         \subseteq remote.roles[config.processing_role.name].attached

(***************************************************************************)
(* Properties of the stream reconciler, under SpecDeploy                   *)
(***************************************************************************)
IsStreamCall(call) == StartsWith(call.op, "firehose.")

\* the calls by which _ensure_iam_role reconciles a role; the get_role of
\* _role_arn only looks the role up
IsRoleReconcileCall(call) ==
    StartsWith(call.op, "iam.") /\ call.op # "iam.get_role"

\* C33: in the stream stage every call that reconciles the stream's role
\* comes before the first stream call, and the roles are not changed after
\* it; when the stream exists, the update call carries the version token and
\* the first destination identifier that the describe call of the same
\* stage returned, and no other stream call lies between the two.
C33_StreamStageProtocol ==
    [][pc = "firehose_stream" /\ Gate("firehose_stream", config) =>
        /\ \A j, k \in 1 .. Len(NewCalls) :
              IsStreamCall(NewCalls[j]) /\ j < k =>
                  ~IsRoleReconcileCall(NewCalls[k])
        /\ \A k \in NewCallsOf("firehose.update_destination") :
              /\ remote.stream.exists
              /\ NewCalls[k].args.version = remote.stream.version
              /\ NewCalls[k].args.destination
                   = remote.stream.destinations[1].id
              /\ \E j \in NewCallsOf("firehose.describe_delivery_stream") :
                    /\ j < k
                    /\ NewCalls[j].err = "none"
                    /\ \A m \in (j + 1) .. (k - 1) :
                          ~IsStreamCall(NewCalls[m])
        /\ \A k \in NewCallsOf("iam.get_role") :
              k = 1 \/ IsStreamCall(NewCalls[k - 1])]_vars

\* the second run found the stream and updated it with the token it read
C33_Witness ==
    /\ run = 2
    /\ pc = "glue_crawler"
    /\ "firehose_stream" \in Keys(summary)
    /\ LabelOf(summary, "firehose_stream") = "updated"
    /\ \E i \in StageCalls("firehose_stream") :
          /\ calls[i].op = "firehose.update_destination"
          /\ calls[i].err = "none"
          /\ calls[i].args.version = remote.stream.version - 1

\* C40 (as stated): after a successful deploy with a processing role
\* configured, every inline policy declared for the processing role is on
\* the remote role of that name, whatever role name the ingestion stream or
\* the access-grant service role uses.
C40_ProcessingPoliciesSurvive ==
    pc = "returned" /\ config.processing_role.present =>
        \A policy \in DOMAIN config.processing_role.inline_policies :
            policy \in DOMAIN remote.roles[config.processing_role.name].inline

(***************************************************************************)
(* Properties of the history report, under SpecFile                        *)
(***************************************************************************)
\* C34 (as stated): for every limit >= 0, get_deployment_history(limit)
\* returns at most limit records: the last min(limit, n) records of the
\* n-record history, in arrival order.
C34_HistoryAtMostLimit ==
    /\ lastOp.op = "get_deployment_history"
    /\ lastOp.raised = "none"
    /\ IsJsonObject(state) /\ "deployments" \in DOMAIN state
    => /\ Len(lastOp.result) = Min(lastOp.limit, Len(state.deployments))
       /\ lastOp.result
            = SubSeq(state.deployments,
                     Len(state.deployments) - Len(lastOp.result) + 1,
                     Len(state.deployments))

(***************************************************************************)
(* Properties of the drift report, under SpecStore                         *)
(***************************************************************************)
\* the compared scalar fields, each with the label of its entry
ComparedFields ==
    { <<"region", "Region changed">>, <<"bucket_name", "Bucket name changed">>,
      <<"glue_database", "Database changed">>,
      <<"table_format", "Table format changed">>,
      <<"kms_key_id", "KMS key changed">>,
      <<"raw_prefix", "raw_prefix changed">>,
      <<"processed_prefix", "processed_prefix changed">>,
      <<"analytics_prefix", "analytics_prefix changed">> }

TagLabels == {"Tags added", "Tags removed", "Tags changed"}

\* C35: when a snapshot exists, detect_drift(C) returns exactly one entry for
\* each of region, bucket name, database name, table format, KMS key
\* reference and the three prefixes whose value in C differs from the
\* snapshot, plus one entry for each tag-difference category that is not
\* empty, and nothing else; a configuration that differs from the snapshot
\* only in other fields gets an empty report.
C35_ExactDriftReport ==
    (lastOp.op = "detect_drift" /\ Truthy(state.current_config)) =>
        /\ \A f \in ComparedFields :
              EntriesOf(lastOp.report, f[2])
                = IF state.current_config[f[1]] # lastOp.config[f[1]]
                  THEN << <<f[2], state.current_config[f[1]],
                            lastOp.config[f[1]]>> >>
                  ELSE <<>>
        /\ Len(EntriesOf(lastOp.report, "Tags added"))
             = IF DOMAIN lastOp.config.tags \ DOMAIN state.current_config.tags
                    # {} THEN 1 ELSE 0
        /\ Len(EntriesOf(lastOp.report, "Tags removed"))
             = IF DOMAIN state.current_config.tags \ DOMAIN lastOp.config.tags
                    # {} THEN 1 ELSE 0
        /\ Len(EntriesOf(lastOp.report, "Tags changed"))
             = IF \E k \in DOMAIN state.current_config.tags
                             \cap DOMAIN lastOp.config.tags :
                       state.current_config.tags[k] # lastOp.config.tags[k]
               THEN 1 ELSE 0
        /\ \A i \in 1 .. Len(lastOp.report) :
              lastOp.report[i][1]
                 \in {f[2] : f \in ComparedFields} \cup TagLabels
        /\ (/\ \A f \in ComparedFields :
                  state.current_config[f[1]] = lastOp.config[f[1]]
            /\ state.current_config.tags = lastOp.config.tags)
              => lastOp.report = <<>>

\* the report asked for a configuration that adds a schedule, a role,
\* endpoints and grants to the snapshot's configuration and changes nothing
\* else is empty
C35_Witness ==
    /\ lastOp.op = "detect_drift"
    /\ Truthy(state.current_config)
    /\ lastOp.report = <<>>
    /\ lastOp.config.vpc_endpoints.present
    /\ lastOp.config.processing_role.present
    /\ lastOp.config.lake_formation.present

(***************************************************************************)
(* Properties of the workgroup reconciler, under SpecDeploy                *)
(***************************************************************************)
\* the step under way is the given stage with its reconciler called
StageRuns(stage) == pc = stage /\ Gate(stage, config) /\ Len(NewCalls) > 0

\* the label the step under way stores
StoredLabel == summary'[Len(summary')][2]

\* C36: the workgroup reconciler starts with the existence query. When the
\* query fails with an invalid-request error whose message contains "not
\* found" in any mix of cases, the create call follows and a successful
\* create is labelled created; when it fails with any other error, that
\* error is raised and no create call is issued; when it succeeds, the
\* update call follows and a stage that ends well is labelled updated.
C36_WorkgroupClassification ==
    [][StageRuns("athena_workgroup") =>
         LET query == NewCalls[1] IN
         /\ query.op = "athena.get_work_group"
         /\ CASE query.err = "none" ->
                   /\ Len(NewCalls) >= 2
                   /\ NewCalls[2].op = "athena.update_work_group"
                   /\ StageSucceeds("athena_workgroup")
                        => StoredLabel = "updated"
              [] query.err \in {AthenaNotFound, AthenaNotFoundCapitals} ->
                   /\ Len(NewCalls) = 2
                   /\ NewCalls[2].op = "athena.create_work_group"
                   /\ NewCalls[2].err = "none"
                        => /\ StageSucceeds("athena_workgroup")
                           /\ StoredLabel = "created"
              [] OTHER ->
                   /\ Len(NewCalls) = 1
                   /\ pc' = "raised"
                   /\ returned'.error = query.err
                   /\ summary' = summary]_vars

\* the existence query was answered "NOT FOUND" in capitals, the create
\* call followed and the stage was labelled created
C36_Witness ==
    /\ \E k \in 1 .. Len(summary) :
          summary[k] = <<"athena_workgroup", "created">>
    /\ \E i \in StageCalls("athena_workgroup") :
          /\ calls[i].op = "athena.get_work_group"
          /\ calls[i].err = AthenaNotFoundCapitals
          /\ i + 1 \in StageCalls("athena_workgroup")
          /\ calls[i + 1].op = "athena.create_work_group"
          /\ calls[i + 1].err = "none"

\* C38 as the specification states it: in the workgroup and table
\* reconcilers a create call is issued only when the existence query of
\* that stage itself failed with the not-found signal; an error of the
\* update or tagging call after a successful query never leads to a create.
C38_CreateOnlyWhenAbsent ==
    [][/\ (StageRuns("athena_workgroup")
            /\ NewCallsOf("athena.create_work_group") # {})
           => /\ NewCalls[1].op = "athena.get_work_group"
              /\ NewCalls[1].err
                   \in {AthenaNotFound, AthenaNotFoundCapitals}
       /\ (StageRuns("transactional_assets")
            /\ NewCallsOf("glue.create_table") # {})
           => /\ NewCalls[1].op = "glue.get_table"
              /\ NewCalls[1].err = "EntityNotFoundException"]_vars

(***************************************************************************)
(* Properties of the endpoint reconcilers, under SpecDeploy                *)
(***************************************************************************)
\* the endpoints of a service that agree on network, service name and type
SameTriple(e, f) ==
    /\ e.vpc_id = f.vpc_id
    /\ e.service_name = f.service_name
    /\ e.type = f.type

\* C37 as the specification states it: once an endpoint matching the
\* network, the service name and the endpoint type exists remotely, no
\* later reconcile issues a create call for that triple, so that there is
\* never more than one endpoint per triple.
C37_EndpointUniqueness ==
    /\ [][\A k \in NewCallsOf("ec2.create_vpc_endpoint") :
            MatchingEndpoints(remote, config, NewCalls[k].args.service,
                              NewCalls[k].args.type) = {}]_vars
    /\ [](\A s \in Services :
            \A i, j \in 1 .. Len(remote.endpoints[s]) :
                SameTriple(remote.endpoints[s][i], remote.endpoints[s][j])
                    => i = j)

(***************************************************************************)
(* The snapshot and the history, under SpecHistory                         *)
(***************************************************************************)
\* C39 as the specification states it: after any sequence of saves from
\* the empty state, whenever the snapshot is not empty,
\* get_last_successful_deployment returns a record, and its region, bucket
\* name and database name are those of the snapshot.
C39_SnapshotHasItsRecord ==
    DOMAIN state.current_config # {} =>
        LET last == LastSuccessful(state.deployments) IN
        /\ last # <<>>
        /\ last[1].region = state.current_config.region
        /\ last[1].bucket_name = state.current_config.bucket_name
        /\ last[1].glue_database = state.current_config.glue_database

====
